---- MODULE Spec2Model ----
(***************************************************************************)
(* Model of the skiboot spinlock core (core/lock.c) and of the OpenCAPI    *)
(* run-time control surface (hw/npu2-opencapi.c).                          *)
(*                                                                         *)
(* Atomicity.  One action is one access to memory that other CPUs read or  *)
(* write (a lock cell, requested_lock, bust_locks); the updates of data    *)
(* that only the executing CPU touches (its locks_held list, con_suspend,  *)
(* the owner label of a lock it holds) are part of the action of the       *)
(* adjacent shared access.  The two reads of l->lock_val in lock_check and *)
(* unlock_check are two actions: the cell is not volatile and another CPU  *)
(* may write it between them.                                              *)
(*                                                                         *)
(* A 64-bit lock cell is the record [hi, lo] of its two 32-bit halves.     *)
(***************************************************************************)
EXTENDS Integers, Sequences, FiniteSets, TLC

NumCpus == 2
NumLocks == 2
\* how far con_suspend may wrap below zero
MaxWrap == 1
\* the SPA addresses are the pages 1 .. NumPages
NumPages == 2
\* the length of a sequence of SPA_SETUP calls
MaxCalls == 4
\* the number of OPAL calls the OS makes, SPA_SETUP aside
MaxOpalCalls == 2
\* the reads of CQ_CTL_STATUS a set_fence_control() makes before its 10 ms
\* are over
MaxFencePolls == 2
\* the number of configuration-space calls
MaxCfgCalls == 3

\* the turns of the status poll of odl_train() after the first one: 3000 in
\* the source
OdlTimeout == 2

CPUS == 0 .. (NumCpus - 1)          \* a CPU is named by its PIR
Locks == 1 .. NumLocks              \* the locks of the callers
dl_lock == NumLocks + 1             \* static struct lock dl_lock
AllLocks == Locks \cup {dl_lock}
\* no lock
NULL == 0
NoLabel == "NULL"                   \* l->owner = NULL

\* cpu_max_pir (core/cpu.c): the highest PIR of the machine
cpu_max_pir == NumCpus - 1

CpuStates == {"active", "os", "disabled"}

VARIABLES
    DEBUG_LOCKS,      \* the build: TRUE iff lock.c is compiled with DEBUG_LOCKS
    bust_locks,
    locks_inited,     \* init_locks() has run
    lock_val,         \* l->lock_val
    owner,            \* l->owner
    in_con_path,      \* l->in_con_path
    cpu_state,        \* cpu->state
    con_suspend,      \* cpu->con_suspend
    con_need_flush,   \* cpu->con_need_flush
    requested_lock,   \* cpu->requested_lock
    locks_held,       \* cpu->locks_held, head first
    pc,               \* the position of each CPU in the lock code
    op,               \* the API call a CPU is in: [api, l], and whether the
                      \* caller held l when it made the call (history)
    ret,              \* the value the finished call returned
    cur,              \* the lock of the try_lock / unlock being executed
    ctx,              \* where the executing unlock returns to
    walk,             \* locals of check_deadlock: [next, i, lock_owner]
    lock_err,         \* the reason of the lock_error() a CPU died in
    fast_reboot_disabled,
    flushed,          \* the last unlock of a CPU called flush_console()
    spap,             \* the registers XSL_PSL_SPAP_A0 and _A1 of each stack
    otl_config0,      \* the register OTL_CONFIG0 of each brick
    spa_rc,           \* what the last OPAL_NPU_SPA_SETUP returned
    spa_trail,        \* the SPA_SETUP calls that passed validation, in
                      \* order: [index, addr, rc] (history)
    npu_lock,         \* dev->npu->lock: the set of the CPUs that hold it
    llcmd,            \* the register XSL_PSL_LLCMD_A0 of each stack
    otl_config1,      \* the register OTL_CONFIG1 of each brick
    bdf2pe_map,       \* the register MISC_BRICKn_BDF2PE_MAP0 of each brick
    bdf2pe_cache,     \* p->bdf2pe_cache[]
    opc,              \* the position of each CPU in an OPAL call
    oarg,             \* the OPAL call a CPU is in: [api, index, arg]
    oreg,             \* the local reg of the call
    retries,          \* the local retries of opal_npu_spa_clear_cache
    orc,              \* what the last OPAL call of a CPU returned
    ncalls,           \* the number of OPAL calls the OS has made
    acc,              \* the register accesses of the current OPAL call of
                      \* a CPU, in order: [kind, reg, val, held] (history)
    bpc,              \* the position of the boot CPU in npu2_opencapi_probe()
    dev_index,        \* "ibm,npu-link-index" of the link, dev->index
    training_state,   \* npu2_ocapi_training_state
    irq_base,         \* p->irq_base
    xsl_irq,          \* the property "ibm,opal-xsl-irq" of the device
    fence_control,    \* REQUEST_FENCE of the register FENCE_CONTROL_n
    fence_status,     \* BRKn_AM_FENCED of the register CQ_CTL_STATUS
    fence_k,          \* the number of the set_fence_control() call being made
    fence_polls,      \* the reads of CQ_CTL_STATUS the call has made
    fence_log,        \* the fence accesses of brick_config(), then those of
                      \* npu2_opencapi_setup_device(), in order: [kind, val,
                      \* k] and, for a read, the field polled (history)
    fence_rc,         \* what the set_fence_control() calls of the log have
                      \* returned, in order: [k, rc] (history)
    train_retries,    \* the local retries of npu2_opencapi_setup_device()
    train_rc,         \* its local rc
    attempts,         \* the number of odl_train() calls made (history)
    odl_steps,        \* the steps of the current odl_train(), in order (history)
    odl_log,          \* its accesses, in order: [op, reg, val] for a write of
                      \* the ODL config register, [op, val] for a read of the
                      \* ODL status, [op] for an I2C write and for the lane
                      \* bump (history)
    odl_timeout,      \* its local timeout
    i2c_i,            \* the local i of reset_ocapi_device()
    i2c_failed,       \* an i2c_request_send() of this odl_train() failed (history)
    dt_status,        \* the property "status" of the PHB node
    phb_registered,   \* pci_register_phb() has been called
    tx_enabled,       \* OTL_CONFIG2 has TX_SEND_EN
    slot,             \* the local slot of npu2_opencapi_setup_device(): "none"
                      \* before npu2_opencapi_slot_create(), then "created" or
                      \* "NULL"
    used_regs,        \* the registers the index mappings have given (history)
    irq_regs,         \* the registers that setup_irq() has written, in order
                      \* (history)
    npu,              \* the struct npu2 of the probe: "allocated" or "freed"
    bars_set,         \* setup_afu_mmio_bars() and setup_afu_config_bars()
                      \* have run for the brick
    scom_log,         \* the register writes of brick_config(), in order:
                      \* [step, reg, val] (history)
    config_addr,      \* the CONFIG_ADDR cell of each window of the GENID BAR
    config_space,     \* the configuration space behind each window: four
                      \* bytes for each register number
    cfg_last,         \* the last configuration-space call: [op, index,
                      \* offset, size, data, rc]
    cfg_w32,          \* the last 32-bit write of each window that
                      \* succeeded, no other write after it: [offset,
                      \* data] (history)
    cfg_calls         \* the number of configuration-space calls made

lockvars == <<DEBUG_LOCKS, bust_locks, locks_inited, lock_val, owner, in_con_path,
              cpu_state, con_suspend, con_need_flush, requested_lock, locks_held,
              pc, op, ret, cur, ctx, walk, lock_err, fast_reboot_disabled, flushed>>

spavars == <<spap, otl_config0, spa_rc, spa_trail>>

oclregs == <<llcmd, otl_config1, bdf2pe_map, bdf2pe_cache>>

oclcpu == <<opc, oarg, oreg, retries, orc, ncalls, acc>>

oclvars == <<npu_lock, oclregs, oclcpu>>

fencevars == <<fence_control, fence_status, fence_k, fence_polls, fence_log, fence_rc>>

trainvars == <<train_retries, train_rc, attempts, odl_steps, odl_log, odl_timeout,
               i2c_i, i2c_failed,
               dt_status, phb_registered, tx_enabled, slot>>

probevars == <<irq_regs, npu, bars_set>>

bringupvars == <<bpc, dev_index, training_state, irq_base, xsl_irq, used_regs,
                 scom_log, probevars, fencevars, trainvars>>

cfgvars == <<config_addr, config_space, cfg_last, cfg_w32, cfg_calls>>

npuvars == <<spavars, oclvars, bringupvars, cfgvars>>

vars == <<lockvars, npuvars>>

\* ---------------------------------------------------------------- lock cells
LOCK_UNLOCKED == [hi |-> 0, lo |-> 0]

\* the owner is not shifted into the high half
HeldValNoShift(pir) == [hi |-> 0, lo |-> 1]

\* val = cpu->pir; val <<= 32; val |= 1;
HeldVal(pir) == [hi |-> pir, lo |-> 1]

\* l->lock_val & 1
HeldBit(v) == v.lo % 2

\* l->lock_val >> 32
OwnerField(v) == v.hi

\* bool lock_held_by_me(struct lock *l)
lock_held_by_me(c, l) == lock_val[l] = HeldVal(c)

\* the compare-and-swap does not compare
CasAlways(l) == TRUE

\* __cmpxchg64(&l->lock_val, 0, val) == 0
CasSucceeds(l) == lock_val[l] = LOCK_UNLOCKED

\* find_cpu_by_pir(pir) != NULL
find_cpu_by_pir(p) == p \in CPUS

\* ---------------------------------------------------------------- held lists
\* list_add(&cpu->locks_held, &l->list): insert at the head
list_add(s, l) == <<l>> \o s

RECURSIVE SeqWithout(_, _)
SeqWithout(s, l) ==
    IF s = <<>> THEN <<>>
    ELSE IF Head(s) = l THEN SeqWithout(Tail(s), l)
    ELSE <<Head(s)>> \o SeqWithout(Tail(s), l)

\* the head of every list is unlinked, whichever lock it is
list_del_head(lists, l) ==
    [c \in CPUS |-> IF lists[c] = <<>> THEN <<>> ELSE Tail(lists[c])]

\* list_del(&l->list): the node leaves the list it is linked on, whichever
\* CPU's list that is
list_del(lists, l) == [c \in CPUS |-> SeqWithout(lists[c], l)]

InList(s, l) == \E i \in 1 .. Len(s) : s[i] = l

\* ------------------------------------------------------------------- helpers
NoOp == [api |-> "none", l |-> NULL, mine |-> FALSE, free |-> FALSE]

\* the call of api on l by c
Call(c, api, l) ==
    [api |-> api, l |-> l, mine |-> l # NULL /\ lock_held_by_me(c, l),
     free |-> api = "lock" /\ lock_val[l] = LOCK_UNLOCKED]
NoWalk == [next |-> NULL, i |-> 0, lock_owner |-> 0]

\* lock_error(): bust_locks = true; ... abort();
lock_error(c, reason) ==
    /\ bust_locks' = TRUE
    /\ pc' = [pc EXCEPT ![c] = "aborted"]
    /\ lock_err' = [lock_err EXCEPT ![c] = reason]

\* where an unlock() returns to: its caller, the loop of drop_my_locks, or
\* lock_caller after add_lock_request
ReturnPc(k) ==
    CASE k = "api" -> "done"
      [] k = "drop" -> "drop_loop"
      [] k = "dl" -> "spin_try"

\* lock_recursive_caller() returns false after it took the lock
RetOfFalse(api) == IF api = "lock_recursive" THEN "false" ELSE "void"

\* the value a finished call returns
RetOf(api) == IF api = "lock_recursive" THEN "true" ELSE "void"

\* try_lock_caller(l, owner) by c, continuing at succPc when it returns true
\* and at failPc when it returns false
try_lock_caller(c, l, label, succPc, failPc) ==
    IF bust_locks THEN
        /\ pc' = [pc EXCEPT ![c] = succPc]
        /\ UNCHANGED <<lock_val, owner, con_suspend, locks_held>>
    ELSE IF CasSucceeds(l) THEN
        /\ lock_val' = [lock_val EXCEPT ![l] = HeldVal(c)]
        /\ owner' = [owner EXCEPT ![l] = label]
        /\ con_suspend' = [con_suspend EXCEPT
                             ![c] = IF in_con_path[l] THEN @ + 1 ELSE @]
        /\ locks_held' = [locks_held EXCEPT ![c] = list_add(@, l)]
        /\ pc' = [pc EXCEPT ![c] = succPc]
    ELSE
        /\ pc' = [pc EXCEPT ![c] = failPc]
        /\ UNCHANGED <<lock_val, owner, con_suspend, locks_held>>

\* the flush is due when con_suspend is 0 before the decrement
FlushDueBefore(c, l) == in_con_path[l] /\ con_suspend[c] = 0 /\ con_need_flush[c]

\* unlock(): the flush is due
FlushDue(c, l) == in_con_path[l] /\ con_suspend[c] - 1 = 0 /\ con_need_flush[c]

\* unlock(): l->owner = NULL; list_del(&l->list); lwsync(); l->lock_val = 0;
\* and the console accounting; lists are the held lists before the list_del.
\* flush_console() writes out the pending output: con_need_flush is off after it
Release(c, l, lists) ==
    /\ owner' = [owner EXCEPT ![l] = NoLabel]
    /\ locks_held' = list_del(lists, l)
    /\ lock_val' = [lock_val EXCEPT ![l] = LOCK_UNLOCKED]
    /\ con_suspend' = [con_suspend EXCEPT
                         ![c] = IF in_con_path[l] THEN @ - 1 ELSE @]
    /\ con_need_flush' = [con_need_flush EXCEPT
                            ![c] = IF FlushDue(c, l) THEN FALSE ELSE @]
    /\ flushed' = [flushed EXCEPT ![c] = FlushDue(c, l)]

NoRelease(lists) ==
    /\ locks_held' = lists
    /\ UNCHANGED <<owner, lock_val, con_suspend, con_need_flush, flushed>>

\* unlock(l) from its entry to its next access to shared memory: with
\* DEBUG_LOCKS the first read of unlock_check, without it the release.
\* k is where the unlock returns to and lists are the held lists at its entry
UnlockEnter(c, l, k, lists) ==
    /\ cur' = [cur EXCEPT ![c] = l]
    /\ ctx' = [ctx EXCEPT ![c] = k]
    /\ IF bust_locks THEN
           /\ pc' = [pc EXCEPT ![c] = ReturnPc(k)]
           /\ NoRelease(lists)
           /\ UNCHANGED <<bust_locks, lock_err>>
       ELSE IF ~DEBUG_LOCKS THEN
           /\ pc' = [pc EXCEPT ![c] = ReturnPc(k)]
           /\ Release(c, l, lists)
           /\ UNCHANGED <<bust_locks, lock_err>>
       ELSE IF HeldBit(lock_val[l]) = 0 THEN
           /\ lock_error(c, "Unlocking unlocked lock")
           /\ NoRelease(lists)
       ELSE
           /\ pc' = [pc EXCEPT ![c] = "unlock_check2"]
           /\ NoRelease(lists)
           /\ UNCHANGED <<bust_locks, lock_err>>

\* ------------------------------------------------------------------- actions
\* void init_locks(void)
init_locks ==
    /\ ~locks_inited
    /\ bust_locks' = FALSE
    /\ locks_inited' = TRUE
    /\ UNCHANGED <<npuvars, DEBUG_LOCKS, lock_val, owner, in_con_path, cpu_state, con_suspend,
                   con_need_flush, requested_lock, locks_held, pc, op, ret, cur, ctx,
                   walk, lock_err, fast_reboot_disabled, flushed>>

\* bool try_lock_caller(struct lock *l, const char *owner), called as try_lock(l)
TryLock(c, l) ==
    /\ pc[c] = "idle"
    /\ op' = [op EXCEPT ![c] = Call(c, "try_lock", l)]
    /\ try_lock_caller(c, l, "caller", "done", "done")
    /\ ret' = [ret EXCEPT ![c] = IF bust_locks \/ CasSucceeds(l) THEN "true" ELSE "false"]
    /\ UNCHANGED <<npuvars, DEBUG_LOCKS, bust_locks, locks_inited, in_con_path, cpu_state,
                   con_need_flush, requested_lock, cur, ctx, walk, lock_err,
                   fast_reboot_disabled, flushed>>

\* lock_caller() without its bust_locks test
LockEnterNoBust(c, l, api) ==
    IF DEBUG_LOCKS /\ HeldBit(lock_val[l]) = 1 THEN
        /\ pc' = [pc EXCEPT ![c] = "lock_check2"]
        /\ UNCHANGED ret
    ELSE
        /\ pc' = [pc EXCEPT ![c] = "lock_fast"]
        /\ UNCHANGED ret

\* lock_caller() without its lock_check()
LockEnterNoCheck(c, l, api) ==
    IF bust_locks THEN
        /\ pc' = [pc EXCEPT ![c] = "done"]
        /\ ret' = [ret EXCEPT ![c] = RetOf(api)]
    ELSE
        /\ pc' = [pc EXCEPT ![c] = "lock_fast"]
        /\ UNCHANGED ret

\* lock_caller(l, owner) by c, called through api, from its entry to its next
\* access to shared memory: the bust_locks test and the first read of lock_check
LockEnter(c, l, api) ==
    IF bust_locks THEN
        /\ pc' = [pc EXCEPT ![c] = "done"]
        /\ ret' = [ret EXCEPT ![c] = RetOf(api)]
    ELSE IF DEBUG_LOCKS /\ HeldBit(lock_val[l]) = 1 THEN
        /\ pc' = [pc EXCEPT ![c] = "lock_check2"]
        /\ UNCHANGED ret
    ELSE
        /\ pc' = [pc EXCEPT ![c] = "lock_fast"]
        /\ UNCHANGED ret

\* void lock_caller(struct lock *l, const char *owner), called as lock(l)
LockStart(c, l) ==
    /\ pc[c] = "idle"
    /\ op' = [op EXCEPT ![c] = Call(c, "lock", l)]
    /\ LockEnter(c, l, "lock")
    /\ UNCHANGED <<npuvars, DEBUG_LOCKS, bust_locks, locks_inited, lock_val, owner, in_con_path,
                   cpu_state, con_suspend, con_need_flush, requested_lock, locks_held,
                   cur, ctx, walk, lock_err, fast_reboot_disabled, flushed>>

\* bool lock_recursive_caller(struct lock *l, const char *caller), called as
\* lock_recursive(l): the bust_locks test and lock_held_by_me(l)
LockRecursiveStart(c, l) ==
    /\ pc[c] = "idle"
    /\ op' = [op EXCEPT ![c] = Call(c, "lock_recursive", l)]
    /\ IF bust_locks \/ lock_held_by_me(c, l) THEN
           /\ pc' = [pc EXCEPT ![c] = "done"]
           /\ ret' = [ret EXCEPT ![c] = "false"]
       ELSE
           /\ pc' = [pc EXCEPT ![c] = "lock_entry"]
           /\ UNCHANGED ret
    /\ UNCHANGED <<npuvars, DEBUG_LOCKS, bust_locks, locks_inited, lock_val, owner, in_con_path,
                   cpu_state, con_suspend, con_need_flush, requested_lock, locks_held,
                   cur, ctx, walk, lock_err, fast_reboot_disabled, flushed>>

\* lock_recursive_caller(): lock_caller(l, caller); return true;
LockEntry(c) ==
    /\ pc[c] = "lock_entry"
    /\ LockEnter(c, op[c].l, "lock_recursive")
    /\ UNCHANGED <<npuvars, DEBUG_LOCKS, bust_locks, locks_inited, lock_val, owner, in_con_path,
                   cpu_state, con_suspend, con_need_flush, requested_lock, locks_held,
                   op, cur, ctx, walk, lock_err, fast_reboot_disabled, flushed>>

\* lock_check(): the read of the owner field
LockCheck2(c) ==
    /\ pc[c] = "lock_check2"
    /\ IF OwnerField(lock_val[op[c].l]) = c THEN
           lock_error(c, "Invalid recursive lock")
       ELSE
           /\ pc' = [pc EXCEPT ![c] = "lock_fast"]
           /\ UNCHANGED <<bust_locks, lock_err>>
    /\ UNCHANGED <<npuvars, DEBUG_LOCKS, locks_inited, lock_val, owner, in_con_path, cpu_state,
                   con_suspend, con_need_flush, requested_lock, locks_held, op, ret,
                   cur, ctx, walk, fast_reboot_disabled, flushed>>

\* add_lock_request() registers the request in every build and CPU state
RequestsLockAlways(c) == TRUE

\* add_lock_request() does something: DEBUG_LOCKS and the CPU is active or os
RequestsLock(c) == DEBUG_LOCKS /\ cpu_state[c] \in {"active", "os"}

\* lock_caller(): if (try_lock(l)) return; add_lock_request(l) up to its loop
LockFast(c) ==
    /\ pc[c] = "lock_fast"
    /\ try_lock_caller(c, op[c].l, "lock.c:216", "done",
                       IF RequestsLock(c) THEN "alr_try" ELSE "spin_try")
    /\ ret' = [ret EXCEPT ![c] = IF bust_locks \/ CasSucceeds(op[c].l)
                                 THEN RetOf(op[c].api) ELSE @]
    /\ UNCHANGED <<npuvars, DEBUG_LOCKS, bust_locks, locks_inited, in_con_path, cpu_state,
                   con_need_flush, requested_lock, op, cur, ctx, walk, lock_err,
                   fast_reboot_disabled, flushed>>

\* add_lock_request(): try_lock(&dl_lock), then curr->requested_lock = l and the
\* first two lines of check_deadlock
AlrTry(c) ==
    /\ pc[c] = "alr_try"
    /\ try_lock_caller(c, dl_lock, "lock.c:115", "walk_cell", "alr_spin")
    /\ IF bust_locks \/ CasSucceeds(dl_lock) THEN
           /\ requested_lock' = [requested_lock EXCEPT ![c] = op[c].l]
           /\ walk' = [walk EXCEPT ![c] = [next |-> op[c].l, i |-> 0, lock_owner |-> 0]]
       ELSE
           UNCHANGED <<requested_lock, walk>>
    /\ UNCHANGED <<npuvars, DEBUG_LOCKS, bust_locks, locks_inited, in_con_path, cpu_state,
                   con_need_flush, op, ret, cur, ctx, lock_err, fast_reboot_disabled,
                   flushed>>

\* add_lock_request(): while (dl_lock.lock_val) barrier();
AlrSpin(c) ==
    /\ pc[c] = "alr_spin"
    /\ lock_val[dl_lock] = LOCK_UNLOCKED
    /\ pc' = [pc EXCEPT ![c] = "alr_try"]
    /\ UNCHANGED <<npuvars, DEBUG_LOCKS, bust_locks, locks_inited, lock_val, owner, in_con_path,
                   cpu_state, con_suspend, con_need_flush, requested_lock, locks_held,
                   op, ret, cur, ctx, walk, lock_err, fast_reboot_disabled, flushed>>

\* check_deadlock(): the loop test and the first read of next->lock_val
WalkCell(c) ==
    /\ pc[c] = "walk_cell"
    /\ IF /\ walk[c].i < cpu_max_pir
          /\ walk[c].next # NULL
          /\ HeldBit(lock_val[walk[c].next]) = 1
          /\ ~in_con_path[walk[c].next]
       THEN pc' = [pc EXCEPT ![c] = "walk_owner"]
       ELSE pc' = [pc EXCEPT ![c] = "alr_unlock"]
    /\ UNCHANGED <<npuvars, DEBUG_LOCKS, bust_locks, locks_inited, lock_val, owner, in_con_path,
                   cpu_state, con_suspend, con_need_flush, requested_lock, locks_held,
                   op, ret, cur, ctx, walk, lock_err, fast_reboot_disabled, flushed>>

\* check_deadlock(): lock_owner = next->lock_val >> 32 and the tests on it
WalkOwner(c) ==
    /\ pc[c] = "walk_owner"
    /\ LET lock_owner == OwnerField(lock_val[walk[c].next]) IN
       IF lock_owner = c THEN
           /\ lock_error(c, "Deadlock detected")
           /\ UNCHANGED walk
       ELSE IF ~find_cpu_by_pir(lock_owner) THEN
           /\ pc' = [pc EXCEPT ![c] = "alr_unlock"]
           /\ UNCHANGED <<bust_locks, lock_err, walk>>
       ELSE
           /\ pc' = [pc EXCEPT ![c] = "walk_req"]
           /\ walk' = [walk EXCEPT ![c].lock_owner = lock_owner]
           /\ UNCHANGED <<bust_locks, lock_err>>
    /\ UNCHANGED <<npuvars, DEBUG_LOCKS, locks_inited, lock_val, owner, in_con_path, cpu_state,
                   con_suspend, con_need_flush, requested_lock, locks_held, op, ret,
                   cur, ctx, fast_reboot_disabled, flushed>>

\* check_deadlock(): next = next_cpu->requested_lock; i++;
WalkReq(c) ==
    /\ pc[c] = "walk_req"
    /\ walk' = [walk EXCEPT ![c].next = requested_lock[walk[c].lock_owner],
                            ![c].i = @ + 1]
    /\ pc' = [pc EXCEPT ![c] = "walk_cell"]
    /\ UNCHANGED <<npuvars, DEBUG_LOCKS, bust_locks, locks_inited, lock_val, owner, in_con_path,
                   cpu_state, con_suspend, con_need_flush, requested_lock, locks_held,
                   op, ret, cur, ctx, lock_err, fast_reboot_disabled, flushed>>

\* add_lock_request(): unlock(&dl_lock)
AlrUnlock(c) ==
    /\ pc[c] = "alr_unlock"
    /\ UnlockEnter(c, dl_lock, "dl", locks_held)
    /\ walk' = [walk EXCEPT ![c] = NoWalk]
    /\ UNCHANGED <<npuvars, DEBUG_LOCKS, locks_inited, in_con_path, cpu_state, requested_lock,
                   op, ret, fast_reboot_disabled>>

\* lock_caller(): if (try_lock_caller(l, owner)) break;
SpinTry(c) ==
    /\ pc[c] = "spin_try"
    /\ try_lock_caller(c, op[c].l, "caller",
                       IF DEBUG_LOCKS THEN "lock_remove" ELSE "done", "spin_wait")
    /\ ret' = [ret EXCEPT ![c] = IF ~DEBUG_LOCKS /\ (bust_locks \/ CasSucceeds(op[c].l))
                                 THEN RetOf(op[c].api) ELSE @]
    /\ UNCHANGED <<npuvars, DEBUG_LOCKS, bust_locks, locks_inited, in_con_path, cpu_state,
                   con_need_flush, requested_lock, op, cur, ctx, walk, lock_err,
                   fast_reboot_disabled, flushed>>

\* the loop is left when the lock is held
SpinWaitHeld(c) ==
    /\ pc[c] = "spin_wait"
    /\ lock_val[op[c].l] # LOCK_UNLOCKED
    /\ pc' = [pc EXCEPT ![c] = "spin_try"]
    /\ UNCHANGED <<npuvars, DEBUG_LOCKS, bust_locks, locks_inited, lock_val, owner, in_con_path,
                   cpu_state, con_suspend, con_need_flush, requested_lock, locks_held,
                   op, ret, cur, ctx, walk, lock_err, fast_reboot_disabled, flushed>>

\* lock_caller(): while (l->lock_val) barrier();
SpinWait(c) ==
    /\ pc[c] = "spin_wait"
    /\ lock_val[op[c].l] = LOCK_UNLOCKED
    /\ pc' = [pc EXCEPT ![c] = "spin_try"]
    /\ UNCHANGED <<npuvars, DEBUG_LOCKS, bust_locks, locks_inited, lock_val, owner, in_con_path,
                   cpu_state, con_suspend, con_need_flush, requested_lock, locks_held,
                   op, ret, cur, ctx, walk, lock_err, fast_reboot_disabled, flushed>>

\* remove_lock_request(), and lock_caller returns
LockRemove(c) ==
    /\ pc[c] = "lock_remove"
    /\ requested_lock' = [requested_lock EXCEPT ![c] = NULL]
    /\ pc' = [pc EXCEPT ![c] = "done"]
    /\ ret' = [ret EXCEPT ![c] = RetOf(op[c].api)]
    /\ UNCHANGED <<npuvars, DEBUG_LOCKS, bust_locks, locks_inited, lock_val, owner, in_con_path,
                   cpu_state, con_suspend, con_need_flush, locks_held, op, cur, ctx,
                   walk, lock_err, fast_reboot_disabled, flushed>>

\* void unlock(struct lock *l), called by the code that uses the locks
UnlockStart(c, l) ==
    /\ pc[c] = "idle"
    /\ in_con_path[l] => con_suspend[c] > -MaxWrap
    /\ op' = [op EXCEPT ![c] = Call(c, "unlock", l)]
    /\ UnlockEnter(c, l, "api", locks_held)
    /\ ret' = [ret EXCEPT ![c] = IF bust_locks \/ ~DEBUG_LOCKS THEN "void" ELSE @]
    /\ UNCHANGED <<npuvars, DEBUG_LOCKS, locks_inited, in_con_path, cpu_state, requested_lock,
                   walk, fast_reboot_disabled>>

\* unlock_check() without the tests that follow its first one
UnlockCheck2Stub(c) ==
    /\ pc[c] = "unlock_check2"
    /\ pc' = [pc EXCEPT ![c] = "unlock_release"]
    /\ UNCHANGED <<npuvars, DEBUG_LOCKS, bust_locks, locks_inited, lock_val, owner, in_con_path,
                   cpu_state, con_suspend, con_need_flush, requested_lock, locks_held,
                   op, ret, cur, ctx, walk, lock_err, fast_reboot_disabled, flushed>>

\* unlock_check(): the read of the owner field and the tests that follow it
UnlockCheck2(c) ==
    /\ pc[c] = "unlock_check2"
    /\ IF OwnerField(lock_val[cur[c]]) # c THEN
           lock_error(c, "Unlocked non-owned lock")
       ELSE IF in_con_path[cur[c]] /\ con_suspend[c] = 0 THEN
           lock_error(c, "Unlock con lock with console not suspended")
       ELSE IF locks_held[c] = <<>> THEN
           lock_error(c, "Releasing lock we don't hold depth")
       ELSE
           /\ pc' = [pc EXCEPT ![c] = "unlock_release"]
           /\ UNCHANGED <<bust_locks, lock_err>>
    /\ UNCHANGED <<npuvars, DEBUG_LOCKS, locks_inited, lock_val, owner, in_con_path, cpu_state,
                   con_suspend, con_need_flush, requested_lock, locks_held, op, ret,
                   cur, ctx, walk, fast_reboot_disabled, flushed>>

\* unlock() after unlock_check: the release, and the unlock returns
UnlockRelease(c) ==
    /\ pc[c] = "unlock_release"
    /\ Release(c, cur[c], locks_held)
    /\ pc' = [pc EXCEPT ![c] = ReturnPc(ctx[c])]
    /\ ret' = [ret EXCEPT ![c] = IF ctx[c] = "api" THEN "void" ELSE @]
    /\ UNCHANGED <<npuvars, DEBUG_LOCKS, bust_locks, locks_inited, in_con_path, cpu_state,
                   requested_lock, op, cur, ctx, walk, lock_err, fast_reboot_disabled>>

\* void drop_my_locks(bool warn): disable_fast_reboot("Lock corruption")
DropStart(c, warn) ==
    /\ pc[c] = "idle"
    /\ op' = [op EXCEPT ![c] = Call(c, "drop_my_locks", NULL)]
    /\ fast_reboot_disabled' = TRUE
    /\ pc' = [pc EXCEPT ![c] = "drop_loop"]
    /\ UNCHANGED <<npuvars, DEBUG_LOCKS, bust_locks, locks_inited, lock_val, owner, in_con_path,
                   cpu_state, con_suspend, con_need_flush, requested_lock, locks_held,
                   ret, cur, ctx, walk, lock_err, flushed>>

\* list_pop(&this_cpu()->locks_held, struct lock, list): the lists after it
list_pop(lists, c) == [lists EXCEPT ![c] = Tail(@)]

\* drop_my_locks(): l = list_pop(...); if it is not NULL, unlock(l) up to its
\* next access to shared memory
DropLoop(c) ==
    /\ pc[c] = "drop_loop"
    /\ IF locks_held[c] = <<>> THEN
           /\ pc' = [pc EXCEPT ![c] = "done"]
           /\ ret' = [ret EXCEPT ![c] = "void"]
           /\ UNCHANGED <<locks_held, cur, ctx, bust_locks, lock_err, owner, lock_val,
                          con_suspend, con_need_flush, flushed>>
       ELSE
           /\ UnlockEnter(c, Head(locks_held[c]), "drop", list_pop(locks_held, c))
           /\ UNCHANGED ret
    /\ UNCHANGED <<npuvars, DEBUG_LOCKS, locks_inited, in_con_path, cpu_state, requested_lock,
                   op, walk, fast_reboot_disabled>>

\* the caller goes on after the call has returned
Return(c) ==
    /\ pc[c] = "done"
    /\ pc' = [pc EXCEPT ![c] = "idle"]
    /\ op' = [op EXCEPT ![c] = NoOp]
    /\ ret' = [ret EXCEPT ![c] = "none"]
    /\ cur' = [cur EXCEPT ![c] = NULL]
    /\ ctx' = [ctx EXCEPT ![c] = "none"]
    /\ flushed' = [flushed EXCEPT ![c] = FALSE]
    /\ UNCHANGED <<npuvars, DEBUG_LOCKS, bust_locks, locks_inited, lock_val, owner, in_con_path,
                   cpu_state, con_suspend, con_need_flush, requested_lock, locks_held,
                   walk, lock_err, fast_reboot_disabled>>

\* the console code: output written while the console is suspended is left
\* for the flush
ConsoleWrite(c) ==
    /\ pc[c] = "idle"
    /\ con_suspend[c] > 0
    /\ ~con_need_flush[c]
    /\ con_need_flush' = [con_need_flush EXCEPT ![c] = TRUE]
    /\ UNCHANGED <<npuvars, DEBUG_LOCKS, bust_locks, locks_inited, lock_val, owner, in_con_path,
                   cpu_state, con_suspend, requested_lock, locks_held, pc, op, ret,
                   cur, ctx, walk, lock_err, fast_reboot_disabled, flushed>>

\* ------------------------------------------------- OpenCAPI control surface
\* A 64-bit address or SPAP register value is the record [page, low] of its
\* bits above the low twelve and of its low twelve bits.
Bricks == {2, 3}                    \* dev->index of the bricks of stack 1

\* OPAL_NPU_SPA_SETUP arguments: no address, the pages, and an address that
\* is not 4k aligned
SpaAddrs ==
    {[page |-> p, low |-> 0] : p \in 0 .. NumPages} \cup {[page |-> 1, low |-> 8]}
PeMasks == {0, 5, 15, 16}

\* pci_get_phb(phb_id): no PHB for id 0, a PHB of another type for id 1, the
\* OpenCAPI PHB of the brick of that index for the others
PhbIds == {0, 1} \cup Bricks
pci_get_phb(phb_id) ==
    IF phb_id = 0 THEN [phb_type |-> "none", index |-> 0]
    ELSE IF phb_id = 1 THEN [phb_type |-> "phb_type_pcie_v4", index |-> 0]
    ELSE [phb_type |-> "phb_type_npu_v2_opencapi", index |-> phb_id]

\* The index mappings give "assert" for an index whose case is default:
\* assert(false)

\* static inline uint64_t index_to_stack(uint64_t index)
index_to_stack(index) ==
    IF index \in {2, 3} THEN "STCK_1"
    ELSE IF index \in {4, 5} THEN "STCK_2"
    ELSE "assert"

\* static inline uint64_t index_to_stacku(uint64_t index)
index_to_stacku(index) ==
    IF index \in {2, 3} THEN "STCK_1U"
    ELSE IF index \in {4, 5} THEN "STCK_2U"
    ELSE "assert"

\* static inline uint64_t index_to_block(uint64_t index)
index_to_block(index) ==
    IF index \in {2, 4} THEN "OTL0"
    ELSE IF index \in {3, 5} THEN "OTL1"
    ELSE "assert"

\* the ODL status registers follow the brick numbers on both OBUSes
get_odl_status_straight(index) ==
    IF index = 2 THEN "OB0_ODL0_STATUS"
    ELSE IF index = 3 THEN "OB0_ODL1_STATUS"
    ELSE IF index = 4 THEN "OB3_ODL0_STATUS"
    ELSE IF index = 5 THEN "OB3_ODL1_STATUS"
    ELSE "assert"

\* static uint64_t get_odl_status(uint32_t gcid, uint64_t index): status_xscom
get_odl_status(index) ==
    IF index = 2 THEN "OB0_ODL0_STATUS"
    ELSE IF index = 3 THEN "OB0_ODL1_STATUS"
    ELSE IF index = 4 THEN "OB3_ODL1_STATUS"
    ELSE IF index = 5 THEN "OB3_ODL0_STATUS"
    ELSE "assert"

\* odl_train(): config_xscom
odl_config(index) ==
    IF index = 2 THEN "OB0_ODL0_CONFIG"
    ELSE IF index = 3 THEN "OB0_ODL1_CONFIG"
    ELSE IF index = 4 THEN "OB3_ODL1_CONFIG"
    ELSE IF index = 5 THEN "OB3_ODL0_CONFIG"
    ELSE "assert"

\* disable_nvlink() and enable_odl_phy_mux(): phy_config_scom
phy_config(index) ==
    IF index \in {2, 3} THEN "OBUS_LL0_IOOL_PHY_CONFIG"
    ELSE IF index \in {4, 5} THEN "OBUS_LL3_IOOL_PHY_CONFIG"
    ELSE "assert"

\* NPU2_XSL_PSL_SPAP_EN, the lowest bit of the register
SPAP_EN == 1

\* reg & NPU2_XSL_PSL_SPAP_EN, as a truth value
SpapEnabled(reg) == (reg.low \div SPAP_EN) % 2 = 1

\* the installation is made although the register is enabled
SpaBusyNever(addr, reg) == FALSE

\* (addr && (reg & EN)) || (!addr && !(reg & EN))
SpaBusy(addr, reg) ==
    \/ addr # [page |-> 0, low |-> 0] /\ SpapEnabled(reg)
    \/ addr = [page |-> 0, low |-> 0] /\ ~SpapEnabled(reg)

\* reg = addr; if (addr) reg = addr | NPU2_XSL_PSL_SPAP_EN;
SpapValue(addr) ==
    IF addr = [page |-> 0, low |-> 0] THEN addr
    ELSE [addr EXCEPT !.low = IF SpapEnabled(addr) THEN @ ELSE @ + SPAP_EN]

\* the SPAP register of a brick: NPU2_REG_OFFSET(stack, NPU2_BLOCK_XSL, offset)
SpapReg(index) ==
    <<index_to_stack(index),
      IF index_to_block(index) = "OTL1" THEN "XSL_PSL_SPAP_A1" ELSE "XSL_PSL_SPAP_A0">>

\* tl_config(): the OTL Config 0 Register of a brick after bring-up
TlConfig0(index) ==
    [EN |-> 1, BLOCK_PE_HANDLE |-> 1, BRICKID |-> index - 2, PE_MASK |-> 0,
     ERAT_HASH |-> <<25, 7, 44, 38>>]

\* the register is written from 0, without the read
SpaPeMaskFromZero(reg, PE_mask) ==
    [EN |-> 0, BLOCK_PE_HANDLE |-> 0, BRICKID |-> 0, PE_MASK |-> PE_mask,
     ERAT_HASH |-> <<0, 0, 0, 0>>]

\* reg = npu2_scom_read(NPU2_OTL_CONFIG0(stack, block)); reg &=
\* ~NPU2_OTL_CONFIG0_PE_MASK; reg |= (PE_mask << (63-7)); with PE_mask <= 15,
\* which the field of four bits that ends at the bit 7 holds
SpaPeMask(reg, PE_mask) == [reg EXCEPT !.PE_MASK = PE_mask]

\* static int64_t opal_npu_spa_setup(uint64_t phb_id, uint32_t bdfn,
\* uint64_t addr, uint64_t PE_mask).  The registers are read and written
\* between lock(&dev->npu->lock) and unlock(&dev->npu->lock): one action, and
\* the lock is as it was found when the call returns
opal_npu_spa_setup(phb_id, addr, PE_mask) ==
    LET phb == pci_get_phb(phb_id)
        index == phb.index
        reg == spap[SpapReg(index)]
    IN
    /\ Len(spa_trail) < MaxCalls
    /\ IF \/ phb.phb_type # "phb_type_npu_v2_opencapi"
          \/ addr.low # 0
          \/ PE_mask > 15
       THEN /\ spa_rc' = "OPAL_PARAMETER"
            /\ UNCHANGED <<spap, otl_config0, spa_trail>>
       ELSE IF SpaBusy(addr, reg)
       THEN /\ npu_lock = {}
            /\ spa_rc' = "OPAL_BUSY"
            /\ spa_trail' = Append(spa_trail,
                                   [index |-> index, addr |-> addr, mask |-> PE_mask,
                                    rc |-> "OPAL_BUSY"])
            /\ UNCHANGED <<spap, otl_config0>>
       ELSE /\ npu_lock = {}
            /\ spap' = [spap EXCEPT ![SpapReg(index)] = SpapValue(addr)]
            /\ otl_config0' = [otl_config0 EXCEPT ![index] = SpaPeMask(@, PE_mask)]
            /\ spa_rc' = "OPAL_SUCCESS"
            /\ spa_trail' = Append(spa_trail,
                                   [index |-> index, addr |-> addr, mask |-> PE_mask,
                                    rc |-> "OPAL_SUCCESS"])
    /\ UNCHANGED <<lockvars, cfgvars, oclvars, bringupvars>>

\* --------------------------------------------- the other OPAL calls of the OS
\* A 64-bit register value is the set of its bits that are 1, numbered as
\* PPC_BIT() numbers them: bit 0 is the most significant, bit 63 the least.
PPC_BIT(bit) == {bit}

PPC_BITMASK(bs, be) == bs .. be

\* the value val as a register value whose least significant bit is the bit
\* lsb: val << (63 - lsb), for the values below 2^16 the calls are made with
ValBits(val, lsb) == {lsb - k : k \in {j \in 0 .. 15 : j <= lsb /\ (val \div 2^j) % 2 = 1}}

\* MASK_TO_LSH(mask), as the number of the lowest bit of the mask
MaskLsb(mask) == CHOOSE b \in mask : \A x \in mask : x <= b

\* SETFIELD(mask, reg, val): (reg & ~mask) | ((val << MASK_TO_LSH(mask)) & mask)
SETFIELD(mask, reg, val) == (reg \ mask) \cup (ValBits(val, MaskLsb(mask)) \cap mask)

\* #define MAX_PE_HANDLE ((1 << 15) - 1)
MAX_PE_HANDLE == 2^15 - 1

TL_MAX_TEMPLATE == 63

TL_RATE_BUF_SIZE == 32

\* NPU2_MAX_PE_NUM, the number of PEs of an NPU
NPU2_MAX_PE_NUM == 16

\* the CPU is not in an OPAL call
NoCall == [api |-> "none", index |-> 0, arg |-> 0]

\* a CPU of the OS enters an OPAL call
OpalEntry(c) ==
    /\ opc[c] = "idle"
    /\ ncalls < MaxOpalCalls
    /\ ncalls' = ncalls + 1
    /\ acc' = [acc EXCEPT ![c] = <<>>]

\* return rc; from the validation of the arguments
OpalReject(c, rc) ==
    /\ orc' = [orc EXCEPT ![c] = rc]
    /\ UNCHANGED <<opc, oarg, oreg, retries, npu_lock, oclregs>>

\* the arguments are valid: the call goes on at the position at
OpalProceed(c, call, at) ==
    /\ opc' = [opc EXCEPT ![c] = at]
    /\ oarg' = [oarg EXCEPT ![c] = call]
    /\ orc' = [orc EXCEPT ![c] = "none"]
    /\ UNCHANGED <<oreg, retries, npu_lock, oclregs>>

\* the access of a register by the CPU c, as the history records it
Access(c, kind, reg, val) ==
    [kind |-> kind, reg |-> reg, val |-> val, held |-> c \in npu_lock]

\* the register XSL_PSL_LLCMD_A0 of the stack of a brick
LlcmdReg(index) == <<index_to_stack(index), "XSL_PSL_LLCMD_A0">>

\* opal_npu_spa_clear_cache(): the lock is taken before the arguments are
\* looked at
ClearCacheEntryLockFirst(c, phb_id, PE_handle) ==
    LET phb == pci_get_phb(phb_id) IN
    /\ OpalEntry(c)
    /\ npu_lock = {}
    /\ IF \/ phb.phb_type # "phb_type_npu_v2_opencapi"
          \/ PE_handle > MAX_PE_HANDLE
       THEN /\ orc' = [orc EXCEPT ![c] = "OPAL_PARAMETER"]
            /\ npu_lock' = {c}
            /\ UNCHANGED <<opc, oarg, oreg, retries, oclregs>>
       ELSE OpalProceed(c, [api |-> "clear_cache", index |-> phb.index,
                            arg |-> PE_handle], "cc_lock")
    /\ UNCHANGED <<lockvars, cfgvars, spavars, bringupvars>>

\* static int64_t opal_npu_spa_clear_cache(uint64_t phb_id, uint32_t bdfn,
\* uint64_t PE_handle), up to lock(): the validation of the arguments
ClearCacheEntry(c, phb_id, PE_handle) ==
    LET phb == pci_get_phb(phb_id) IN
    /\ OpalEntry(c)
    /\ IF \/ phb.phb_type # "phb_type_npu_v2_opencapi"
          \/ PE_handle > MAX_PE_HANDLE
       THEN OpalReject(c, "OPAL_PARAMETER")
       ELSE OpalProceed(c, [api |-> "clear_cache", index |-> phb.index,
                            arg |-> PE_handle], "cc_lock")
    /\ UNCHANGED <<lockvars, cfgvars, spavars, bringupvars>>

\* the call goes on whether the lock is free or not
ClearCacheLockNoWait(c) ==
    /\ opc[c] = "cc_lock"
    /\ npu_lock' = npu_lock \cup {c}
    /\ opc' = [opc EXCEPT ![c] = "cc_read"]
    /\ UNCHANGED <<oarg, oreg, retries, orc, ncalls, acc, oclregs>>
    /\ UNCHANGED <<lockvars, cfgvars, spavars, bringupvars>>

\* lock(&dev->npu->lock), once the lock is free
ClearCacheLock(c) ==
    /\ opc[c] = "cc_lock"
    /\ npu_lock = {}
    /\ npu_lock' = {c}
    /\ opc' = [opc EXCEPT ![c] = "cc_read"]
    /\ UNCHANGED <<oarg, oreg, retries, orc, ncalls, acc, oclregs>>
    /\ UNCHANGED <<lockvars, cfgvars, spavars, bringupvars>>

\* the busy command returns OPAL_BUSY from where it is found
ClearCacheReadReturnBusy(c) ==
    LET r == LlcmdReg(oarg[c].index) IN
    /\ opc[c] = "cc_read"
    /\ oreg' = [oreg EXCEPT ![c] = llcmd[r]]
    /\ acc' = [acc EXCEPT ![c] = Append(@, Access(c, "read", r, llcmd[r]))]
    /\ IF llcmd[r] \cap PPC_BIT(16) # {}
       THEN /\ orc' = [orc EXCEPT ![c] = "OPAL_BUSY"]
            /\ opc' = [opc EXCEPT ![c] = "idle"]
       ELSE /\ opc' = [opc EXCEPT ![c] = "cc_write"]
            /\ UNCHANGED orc
    /\ UNCHANGED <<oarg, retries, ncalls, npu_lock, oclregs>>
    /\ UNCHANGED <<lockvars, cfgvars, spavars, bringupvars>>

\* reg = npu2_scom_read(cc_inv); if (reg & PPC_BIT(16)) { rc = OPAL_BUSY;
\* goto out; }
ClearCacheRead(c) ==
    LET r == LlcmdReg(oarg[c].index) IN
    /\ opc[c] = "cc_read"
    /\ oreg' = [oreg EXCEPT ![c] = llcmd[r]]
    /\ acc' = [acc EXCEPT ![c] = Append(@, Access(c, "read", r, llcmd[r]))]
    /\ IF llcmd[r] \cap PPC_BIT(16) # {}
       THEN /\ orc' = [orc EXCEPT ![c] = "OPAL_BUSY"]
            /\ opc' = [opc EXCEPT ![c] = "cc_out"]
       ELSE /\ opc' = [opc EXCEPT ![c] = "cc_write"]
            /\ UNCHANGED orc
    /\ UNCHANGED <<oarg, retries, ncalls, npu_lock, oclregs>>
    /\ UNCHANGED <<lockvars, cfgvars, spavars, bringupvars>>

\* reg = PE_handle | PPC_BIT(15); if (block == NPU2_BLOCK_OTL1)
\* reg |= PPC_BIT(48);
CacheCommand(index, PE_handle) ==
    ValBits(PE_handle, 63) \cup PPC_BIT(15)
        \cup (IF index_to_block(index) = "OTL1" THEN PPC_BIT(48) ELSE {})

\* npu2_scom_write(cc_inv, reg); rc = OPAL_HARDWARE; with retries = 5 from
\* the declaration.  The XSL shows the command in flight in bit 16
ClearCacheWrite(c) ==
    LET r == LlcmdReg(oarg[c].index)
        reg == CacheCommand(oarg[c].index, oarg[c].arg)
    IN
    /\ opc[c] = "cc_write"
    /\ oreg' = [oreg EXCEPT ![c] = reg]
    /\ llcmd' = [llcmd EXCEPT ![r] = reg \cup PPC_BIT(16)]
    /\ acc' = [acc EXCEPT ![c] = Append(@, Access(c, "write", r, reg))]
    /\ orc' = [orc EXCEPT ![c] = "OPAL_HARDWARE"]
    /\ retries' = [retries EXCEPT ![c] = 5]
    /\ opc' = [opc EXCEPT ![c] = "cc_poll"]
    /\ UNCHANGED <<oarg, ncalls, npu_lock, otl_config1, bdf2pe_map, bdf2pe_cache>>
    /\ UNCHANGED <<lockvars, cfgvars, spavars, bringupvars>>

\* the loop of the poll never counts down
ClearCachePollForever(c) ==
    LET r == LlcmdReg(oarg[c].index) IN
    /\ opc[c] = "cc_poll"
    /\ oreg' = [oreg EXCEPT ![c] = llcmd[r]]
    /\ acc' = [acc EXCEPT ![c] =
                   IF Len(@) < 9 THEN Append(@, Access(c, "read", r, llcmd[r])) ELSE @]
    /\ IF llcmd[r] \cap PPC_BIT(16) = {}
       THEN /\ orc' = [orc EXCEPT ![c] = "OPAL_SUCCESS"]
            /\ opc' = [opc EXCEPT ![c] = "cc_out"]
       ELSE UNCHANGED <<orc, opc>>
    /\ UNCHANGED <<oarg, retries, ncalls, npu_lock, oclregs>>
    /\ UNCHANGED <<lockvars, cfgvars, spavars, bringupvars>>

\* while (retries--) { reg = npu2_scom_read(cc_inv); if (!(reg &
\* PPC_BIT(16))) { rc = OPAL_SUCCESS; break; } time_wait_us(200); }: one
\* evaluation of the condition and, when it holds, one turn of the loop
ClearCachePoll(c) ==
    LET r == LlcmdReg(oarg[c].index) IN
    /\ opc[c] = "cc_poll"
    /\ IF retries[c] = 0
       THEN /\ opc' = [opc EXCEPT ![c] = "cc_out"]
            /\ UNCHANGED <<oreg, acc, orc, retries>>
       ELSE /\ retries' = [retries EXCEPT ![c] = @ - 1]
            /\ oreg' = [oreg EXCEPT ![c] = llcmd[r]]
            /\ acc' = [acc EXCEPT ![c] = Append(@, Access(c, "read", r, llcmd[r]))]
            /\ IF llcmd[r] \cap PPC_BIT(16) = {}
               THEN /\ orc' = [orc EXCEPT ![c] = "OPAL_SUCCESS"]
                    /\ opc' = [opc EXCEPT ![c] = "cc_out"]
               ELSE UNCHANGED <<orc, opc>>
    /\ UNCHANGED <<oarg, ncalls, npu_lock, oclregs>>
    /\ UNCHANGED <<lockvars, cfgvars, spavars, bringupvars>>

\* out: unlock(&dev->npu->lock); return rc;
ClearCacheOut(c) ==
    /\ opc[c] = "cc_out"
    /\ npu_lock' = npu_lock \ {c}
    /\ opc' = [opc EXCEPT ![c] = "idle"]
    /\ UNCHANGED <<oarg, oreg, retries, orc, ncalls, acc, oclregs>>
    /\ UNCHANGED <<lockvars, cfgvars, spavars, bringupvars>>

\* the XSL completes the command in flight and clears bit 16
XslDone(r) ==
    /\ llcmd[r] \cap PPC_BIT(16) # {}
    /\ llcmd' = [llcmd EXCEPT ![r] = @ \ PPC_BIT(16)]
    /\ UNCHANGED <<npu_lock, otl_config1, bdf2pe_map, bdf2pe_cache, oclcpu>>
    /\ UNCHANGED <<lockvars, cfgvars, spavars, bringupvars>>


\* the rate of a template is taken from the other nibble of its byte
get_template_rate_swapped(templ, rate_buf) ==
    LET idx == (TL_MAX_TEMPLATE - templ) \div 2
        shift == 4 * ((TL_MAX_TEMPLATE - templ) % 2)
    IN  rate_buf[idx + 1] \div 2^shift

\* static int get_template_rate(unsigned int templ, char *rate_buf): the
\* buffer is the sequence of its bytes, byte 0 first, each byte 0 .. 255
get_template_rate(templ, rate_buf) ==
    LET idx == (TL_MAX_TEMPLATE - templ) \div 2
        shift == 4 * (1 - ((TL_MAX_TEMPLATE - templ) % 2))
    IN  rate_buf[idx + 1] \div 2^shift

\* static bool is_template_supported(unsigned int templ, long capabilities)
is_template_supported(templ, capabilities) == (capabilities \div 2^templ) % 2 = 1

\* NPU2_OTL_CONFIG1_TX_TEMPn_EN
NPU2_OTL_CONFIG1_TX_TEMP1_EN == PPC_BIT(1)

NPU2_OTL_CONFIG1_TX_TEMP2_EN == PPC_BIT(2)

NPU2_OTL_CONFIG1_TX_TEMP3_EN == PPC_BIT(3)

\* for (i = 0; i < 4; i++) { if (i && is_template_supported(i, capabilities))
\* reg |= PPC_BIT(i); reg = SETFIELD(PPC_BITMASK(rate_pos, rate_pos + 3), reg,
\* get_template_rate(i, rate)); }, from the turn i on
RECURSIVE TlSetLoop(_, _, _, _)
TlSetLoop(i, reg, capabilities, rate) ==
    IF i >= 4 THEN reg
    ELSE LET en == IF i # 0 /\ is_template_supported(i, capabilities)
                   THEN reg \cup PPC_BIT(i) ELSE reg
             rate_pos == 8 + i * 4
         IN  TlSetLoop(i + 1,
                       SETFIELD(PPC_BITMASK(rate_pos, rate_pos + 3), en,
                                get_template_rate(i, rate)),
                       capabilities, rate)

\* the value opal_npu_tl_set() writes: reg &= ~(TX_TEMP1_EN | TX_TEMP3_EN |
\* TX_TEMP1_EN); and the loop
TlSetValue(reg, capabilities, rate) ==
    TlSetLoop(0,
              reg \ (NPU2_OTL_CONFIG1_TX_TEMP1_EN \cup NPU2_OTL_CONFIG1_TX_TEMP3_EN
                         \cup NPU2_OTL_CONFIG1_TX_TEMP1_EN),
              capabilities, rate)

\* static int64_t opal_npu_tl_set(uint64_t phb_id, uint32_t bdfn, long
\* capabilities, uint64_t rate_phys, int rate_sz), up to the read of the
\* register: the validation of the arguments.  rate is [valid, buf]: whether
\* opal_addr_valid() accepts the address, and the bytes at it
TlSetEntry(c, phb_id, capabilities, rate, rate_sz) ==
    LET phb == pci_get_phb(phb_id) IN
    /\ OpalEntry(c)
    /\ IF \/ phb.phb_type # "phb_type_npu_v2_opencapi"
          \/ ~rate.valid \/ rate_sz # TL_RATE_BUF_SIZE
          \/ ~is_template_supported(0, capabilities)
       THEN OpalReject(c, "OPAL_PARAMETER")
       ELSE OpalProceed(c, [api |-> "tl_set", index |-> phb.index,
                            arg |-> [capabilities |-> capabilities, rate |-> rate.buf]],
                        "tl_read")
    /\ UNCHANGED <<lockvars, cfgvars, spavars, bringupvars>>

\* reg = npu2_scom_read(NPU2_OTL_CONFIG1(stack, block))
TlSetRead(c) ==
    LET index == oarg[c].index IN
    /\ opc[c] = "tl_read"
    /\ oreg' = [oreg EXCEPT ![c] = otl_config1[index]]
    /\ acc' = [acc EXCEPT ![c] =
                   Append(@, Access(c, "read", <<"OTL_CONFIG1", index>>, otl_config1[index]))]
    /\ opc' = [opc EXCEPT ![c] = "tl_write"]
    /\ UNCHANGED <<oarg, retries, orc, ncalls, npu_lock, oclregs>>
    /\ UNCHANGED <<lockvars, cfgvars, spavars, bringupvars>>

\* the computation of reg, npu2_scom_write(NPU2_OTL_CONFIG1(stack, block),
\* reg) and return OPAL_SUCCESS
TlSetWrite(c) ==
    LET index == oarg[c].index
        reg == TlSetValue(oreg[c], oarg[c].arg.capabilities, oarg[c].arg.rate)
    IN
    /\ opc[c] = "tl_write"
    /\ oreg' = [oreg EXCEPT ![c] = reg]
    /\ otl_config1' = [otl_config1 EXCEPT ![index] = reg]
    /\ acc' = [acc EXCEPT ![c] =
                   Append(@, Access(c, "write", <<"OTL_CONFIG1", index>>, reg))]
    /\ orc' = [orc EXCEPT ![c] = "OPAL_SUCCESS"]
    /\ opc' = [opc EXCEPT ![c] = "idle"]
    /\ UNCHANGED <<oarg, retries, ncalls, npu_lock, llcmd, bdf2pe_map, bdf2pe_cache>>
    /\ UNCHANGED <<lockvars, cfgvars, spavars, bringupvars>>

\* the comparison keys of OPAL_PCI_SET_PE: <<bcompare, dcompare, fcompare>>
SupportedKeys ==
    <<"OpalPciBusAll", "OPAL_COMPARE_RID_DEVICE_NUMBER", "OPAL_COMPARE_RID_FUNCTION_NUMBER">>

\* what the sanity checks of npu2_opencapi_set_pe() return, OPAL_SUCCESS
\* when they all pass
SetPeCheck(pe_num, bdfn, keys, action) ==
    IF action \notin {"OPAL_MAP_PE", "OPAL_UNMAP_PE"} THEN "OPAL_PARAMETER"
    ELSE IF pe_num >= NPU2_MAX_PE_NUM THEN "OPAL_PARAMETER"
    ELSE IF bdfn \div 2^8 # 0 THEN "OPAL_PARAMETER"
    ELSE IF keys # SupportedKeys THEN "OPAL_UNSUPPORTED"
    ELSE "OPAL_SUCCESS"

\* the value without NPU2_MISC_BRICK_BDF2PE_MAP_ENABLE
Bdf2PeValueNoEnable(pe_num) == [ENABLE |-> 0, PE |-> pe_num, BDF |-> 0]

\* val = ENABLE; val = SETFIELD(..._MAP_PE, val, pe_num); val =
\* SETFIELD(..._MAP_BDF, val, pe_bdfn); with pe_bdfn = dev->bdfn, which
\* npu2_opencapi_setup_device() sets to 0
Bdf2PeValue(pe_num) == [ENABLE |-> 1, PE |-> pe_num, BDF |-> 0]

\* static int64_t npu2_opencapi_set_pe(struct phb *phb, uint64_t pe_num,
\* uint64_t bdfn, uint8_t bcompare, uint8_t dcompare, uint8_t fcompare,
\* uint8_t action), up to the store into the cache: the sanity checks.  The
\* PHB is the one of the brick index
SetPeEntry(c, index, pe_num, bdfn, keys, action) ==
    LET rc == SetPeCheck(pe_num, bdfn, keys, action) IN
    /\ OpalEntry(c)
    /\ IF rc # "OPAL_SUCCESS"
       THEN OpalReject(c, rc)
       ELSE OpalProceed(c, [api |-> "set_pe", index |-> index,
                            arg |-> [pe_num |-> pe_num, bdfn |-> bdfn]],
                        "pe_cache")
    /\ UNCHANGED <<lockvars, cfgvars, spavars, bringupvars>>

\* p->bdf2pe_cache[dev->index] = val
SetPeCache(c) ==
    /\ opc[c] = "pe_cache"
    /\ bdf2pe_cache' = [bdf2pe_cache EXCEPT ![oarg[c].index] =
                                                    Bdf2PeValue(oarg[c].arg.pe_num)]
    /\ opc' = [opc EXCEPT ![c] = "pe_write"]
    /\ UNCHANGED <<oarg, oreg, retries, orc, ncalls, acc, npu_lock, llcmd,
                   otl_config1, bdf2pe_map>>
    /\ UNCHANGED <<lockvars, cfgvars, spavars, bringupvars>>

\* npu2_write(p, reg, val); return OPAL_SUCCESS;
SetPeWrite(c) ==
    LET index == oarg[c].index
        val == Bdf2PeValue(oarg[c].arg.pe_num)
    IN
    /\ opc[c] = "pe_write"
    /\ bdf2pe_map' = [bdf2pe_map EXCEPT ![index] = val]
    /\ acc' = [acc EXCEPT ![c] =
                   Append(@, Access(c, "write", <<"BDF2PE_MAP0", index>>, val))]
    /\ orc' = [orc EXCEPT ![c] = "OPAL_SUCCESS"]
    /\ opc' = [opc EXCEPT ![c] = "idle"]
    /\ UNCHANGED <<oarg, oreg, retries, ncalls, npu_lock, llcmd, otl_config1,
                   bdf2pe_cache>>
    /\ UNCHANGED <<lockvars, cfgvars, spavars, bringupvars>>

\* ------------------------------------------------- the bring-up of a brick
\* The boot CPU runs npu2_opencapi_probe() for a link of index dev_index.  The
\* registers that the functions of the bring-up write and nothing reads back
\* are not kept; the register an index mapping gives is recorded.
NPU_IRQ_LEVELS == 35

NPU_IRQ_LEVELS_XSL == 23

LINK_TRAINING_RETRIES == 5

\* the property "ibm,opal-xsl-irq" is not there
NoIrq == 0 - 1

\* the values set_npcq_config() and npu2_opencapi_setup_device() call
\* set_fence_control() with, in order
FenceSeq == <<1, 3, 2, 0>>

Use(name, reg) == {<<name, reg>>}

\* brick_config(), up to set_npcq_config(): disable_nvlink(),
\* A register write of brick_config() is the record [step, reg, val] of the
\* step of brick_config() that makes it, of the register and of the fields
\* that the value written sets (or, for a field of several bits, its value)
ScomWrite(step, reg, val) == [step |-> step, reg |-> reg, val |-> val]

\* the blocks NPU2_BLOCK_SM_0 to NPU2_BLOCK_SM_3, in the order of the loops
SmBlocks == <<"SM_0", "SM_1", "SM_2", "SM_3">>

\* static void disable_nvlink(uint32_t gcid, int index)
disable_nvlink(index) ==
    <<ScomWrite(1, <<phy_config(index)>>, {"NV0_NPU_DISABLED", "NV1_NPU_DISABLED",
                                          "NV2_NPU_DISABLED"})>>

\* the two writes of set_transport_mux_controls() the other way round
set_transport_mux_controls_swapped(index) ==
    <<ScomWrite(2, <<"PU_IOE_PB_MISC_CFG">>,
                IF index = 4 THEN {"SEL_04_NPU_NOT_PB"}
                ELSE IF index = 5 THEN {"SEL_05_NPU_NOT_PB"}
                ELSE {}),
      ScomWrite(2, <<"NPU2_MISC_OPTICAL_IO_CFG0">>,
                IF index \in {2, 3} THEN {"NDLMUX_BRK0TO2", "OCMUX_BRK0TO1"}
                ELSE {"OCMUX_BRK4TO5"})>>

\* static void set_transport_mux_controls(uint32_t gcid, uint32_t scom_base,
\* int index, enum npu2_dev_type type)
set_transport_mux_controls(index) ==
    <<ScomWrite(2, <<"NPU2_MISC_OPTICAL_IO_CFG0">>,
                IF index \in {2, 3} THEN {"NDLMUX_BRK0TO2", "OCMUX_BRK0TO1"}
                ELSE {"OCMUX_BRK4TO5"}),
      ScomWrite(2, <<"PU_IOE_PB_MISC_CFG">>,
                IF index = 4 THEN {"SEL_04_NPU_NOT_PB"}
                ELSE IF index = 5 THEN {"SEL_05_NPU_NOT_PB"}
                ELSE {})>>

\* static void enable_odl_phy_mux(uint32_t gcid, int index)
enable_odl_phy_mux(index) ==
    <<ScomWrite(3, <<phy_config(index)>>,
                {IF index \in {2, 5} THEN "ODL0_ENABLED" ELSE "ODL1_ENABLED",
                 "LINK0_OLL_DISABLED", "LINK1_OLL_DISABLED"})>>

\* static void disable_alink_fp(uint32_t gcid)
disable_alink_fp ==
    [k \in 1 .. 4 |->
        ScomWrite(4, <<<<"PU_IOE_PB_FP01_CFG", "PU_IOE_PB_FP23_CFG", "PU_IOE_PB_FP45_CFG",
                        "PU_IOE_PB_FP67_CFG">>[k]>>,
                  {"FP0_FMR_DISABLE", "FP0_PRS_DISABLE", "FP1_FMR_DISABLE",
                   "FP1_PRS_DISABLE"})]

\* static void enable_xsl_clocks(uint32_t gcid, uint32_t scom_base, int index)
enable_xsl_clocks(index) ==
    <<ScomWrite(5, <<index_to_stack(index), "XSL", "NPU2_XSL_WRAP_CFG">>,
                {"XSLO_CLOCK_ENABLE"})>>

\* set_npcq_config(): the write of NPU2_OTL_CONFIG0
OtlEnable(index) ==
    ScomWrite(6, <<index_to_stack(index), index_to_block(index), "NPU2_OTL_CONFIG0">>,
              {"EN"})

\* the field REQUEST_FENCE of a status, as written in the source
FenceName(status) == <<"0b00", "0b01", "0b10", "0b11">>[status + 1]

\* set_fence_control(): the write of NPU2_CQ_CTL_FENCE_CONTROL_0 or _1
FenceControl(index, status) ==
    ScomWrite(6, <<index_to_stack(index), "CTL",
                   IF index_to_block(index) = "OTL0" THEN "NPU2_CQ_CTL_FENCE_CONTROL_0"
                   ELSE "NPU2_CQ_CTL_FENCE_CONTROL_1">>,
              {FenceName(status)})

\* set_npcq_config(): the write of NPU2_CQ_CTL_MISC_CFG
CqCtlMiscCfg(index) ==
    <<ScomWrite(6, <<index_to_stack(index), "CTL", "NPU2_CQ_CTL_MISC_CFG">>,
                {"CONFIG_OCAPI_MODE",
                 IF index_to_block(index) = "OTL0" THEN "CONFIG_OTL0_ENABLE"
                 ELSE "CONFIG_OTL1_ENABLE"})>>

\* set_npcq_config(): the writes of NPU2_CQ_DAT_MISC_CFG and of
\* NPU2_CQ_SM_MISC_CFG0
CqDatSmMiscCfg(index) ==
    <<ScomWrite(6, <<index_to_stack(index), "DAT", "NPU2_CQ_DAT_MISC_CFG">>,
                {"CONFIG_OCAPI_MODE"})>>
    \o [k \in 1 .. 4 |->
           ScomWrite(6, <<index_to_stack(index), SmBlocks[k], "NPU2_CQ_SM_MISC_CFG0">>,
                     {"CONFIG_OCAPI_MODE"})]

\* static void enable_xsl_xts_interfaces(uint32_t gcid, uint32_t scom_base,
\* int index)
enable_xsl_xts_interfaces(index) ==
    <<ScomWrite(7, <<"NPU2_XTS_CFG">>, {"OPENCAPI"}),
      ScomWrite(7, <<"NPU2_XTS_CFG2">>,
                {IF index_to_stack(index) = "STCK_1" THEN "XSL1_ENA" ELSE "XSL2_ENA"})>>

\* static void enable_sm_allocation(uint32_t gcid, uint32_t scom_base, int
\* index)
enable_sm_allocation(index) ==
    [k \in 1 .. 4 |->
        ScomWrite(8, <<index_to_stack(index), SmBlocks[k], "NPU2_LOW_WATER_MARKS">>,
                  {"ENABLE_MACHINE_ALLOC"})]

\* static void enable_pb_snooping(uint32_t gcid, uint32_t scom_base, int index)
enable_pb_snooping(index) ==
    [k \in 1 .. 4 |->
        ScomWrite(9, <<index_to_stack(index), SmBlocks[k], "NPU2_CQ_SM_MISC_CFG0">>,
                  {"CONFIG_ENABLE_PBUS"})]

\* the writes wait for the fence sequence to be over: none between the first
\* set_fence_control() and the second
AfterFenceAtEnd(index, k) ==
    IF k = 3 THEN CqCtlMiscCfg(index) \o CqDatSmMiscCfg(index)
                      \o enable_xsl_xts_interfaces(index)
                      \o enable_sm_allocation(index) \o enable_pb_snooping(index)
    ELSE <<>>

\* the register writes between the return of the set_fence_control() number
\* k and the next set_fence_control(): those of set_npcq_config() and, after
\* it, of the rest of brick_config()
AfterFence(index, k) ==
    IF k = 1 THEN CqCtlMiscCfg(index)
    ELSE IF k = 3 THEN CqDatSmMiscCfg(index) \o enable_xsl_xts_interfaces(index)
                           \o enable_sm_allocation(index) \o enable_pb_snooping(index)
    ELSE <<>>

\* static void brick_config(uint32_t gcid, uint32_t scom_base, int index), up
\* to set_npcq_config(): disable_nvlink(), set_transport_mux_controls(),
\* enable_odl_phy_mux(), disable_alink_fp() and enable_xsl_clocks()
brick_config ==
    /\ bpc = "brick_config"
    /\ IF phy_config(dev_index) = "assert"
       THEN bpc' = "abort" /\ UNCHANGED used_regs
       ELSE /\ bpc' = "set_npcq_config"
            /\ used_regs' = used_regs \cup Use("phy_config", phy_config(dev_index))
                                 \cup Use("stack", index_to_stack(dev_index))
    /\ UNCHANGED <<dev_index, training_state, irq_base, xsl_irq, fencevars, trainvars>>
    /\ scom_log' = IF phy_config(dev_index) = "assert" THEN scom_log
                   ELSE disable_nvlink(dev_index)
                            \o set_transport_mux_controls(dev_index)
                            \o enable_odl_phy_mux(dev_index)
                            \o disable_alink_fp
                            \o enable_xsl_clocks(dev_index)
    /\ UNCHANGED <<lockvars, cfgvars, spavars, oclvars, probevars>>

\* static void set_npcq_config(uint32_t gcid, uint32_t scom_base, int index),
\* up to the first set_fence_control()
set_npcq_config ==
    /\ bpc = "set_npcq_config"
    /\ used_regs' = used_regs \cup Use("block", index_to_block(dev_index))
    /\ fence_k' = 1
    /\ bpc' = "fence_write"
    /\ UNCHANGED <<dev_index, training_state, irq_base, xsl_irq, fence_control,
                   fence_status, fence_polls, fence_log, fence_rc, trainvars>>
    /\ scom_log' = Append(scom_log, OtlEnable(dev_index))
    /\ UNCHANGED <<lockvars, cfgvars, spavars, oclvars, probevars>>

\* the field of the other brick of the stack
StatusFieldOther(index) ==
    IF index_to_block(index) = "OTL0" THEN "BRK1_AM_FENCED" ELSE "BRK0_AM_FENCED"

\* if (index_to_block(index) == NPU2_BLOCK_OTL0) status_field =
\* NPU2_CQ_CTL_STATUS_BRK0_AM_FENCED; else status_field =
\* NPU2_CQ_CTL_STATUS_BRK1_AM_FENCED;
StatusField(index) ==
    IF index_to_block(index) = "OTL0" THEN "BRK0_AM_FENCED" ELSE "BRK1_AM_FENCED"

\* static int set_fence_control(uint32_t gcid, uint32_t scom_base, int index,
\* uint8_t status): the write of FENCE_CONTROL_n
FenceWrite ==
    LET status == FenceSeq[fence_k] IN
    /\ bpc = "fence_write"
    /\ fence_control' = status
    /\ fence_log' = Append(fence_log, [kind |-> "write", val |-> status, k |-> fence_k])
    /\ UNCHANGED fence_rc
    /\ fence_polls' = 0
    /\ bpc' = "fence_read"
    /\ UNCHANGED <<dev_index, training_state, irq_base, xsl_irq, used_regs,
                   fence_status, fence_k, trainvars>>
    /\ scom_log' = IF fence_k <= 3
                   THEN Append(scom_log, FenceControl(dev_index, status))
                   ELSE scom_log
    /\ UNCHANGED <<lockvars, cfgvars, spavars, oclvars, probevars>>

\* where the caller goes on when the set_fence_control() number k returns:
\* its result is not looked at
FenceReturn(k) ==
    IF k < 3 THEN "fence_write"
    ELSE IF k = 3 THEN "setup_irq"
    ELSE "train"

\* do { status_val = npu2_scom_read(CQ_CTL_STATUS); if (GETFIELD(status_field,
\* status_val) == status) return OPAL_SUCCESS; time_wait_ms(1); } while
\* (tb_compare(mftb(), timeout) == TB_ABEFOREB); ... return OPAL_HARDWARE: one
\* turn of the loop; whether the 10 ms are over after it is timed_out
FenceRead(timed_out) ==
    /\ bpc = "fence_read"
    /\ fence_log' = Append(fence_log, [kind |-> "read", val |-> fence_status, k |-> fence_k,
                                       field |-> StatusField(dev_index)])
    /\ fence_rc' = IF fence_status = fence_control
                   THEN Append(fence_rc, [k |-> fence_k, rc |-> "OPAL_SUCCESS"])
                   ELSE IF timed_out
                   THEN Append(fence_rc, [k |-> fence_k, rc |-> "OPAL_HARDWARE"])
                   ELSE fence_rc
    /\ IF fence_status = fence_control \/ timed_out
       THEN /\ bpc' = FenceReturn(fence_k)
            /\ fence_k' = IF fence_k < 3 THEN fence_k + 1 ELSE fence_k
            /\ fence_polls' = 0
       ELSE /\ fence_polls + 1 < MaxFencePolls
            /\ fence_polls' = fence_polls + 1
            /\ UNCHANGED <<bpc, fence_k>>
    /\ UNCHANGED <<dev_index, training_state, irq_base, xsl_irq, used_regs,
                   fence_control, fence_status, trainvars>>
    /\ scom_log' = IF fence_status = fence_control \/ timed_out
                   THEN scom_log \o AfterFence(dev_index, fence_k)
                   ELSE scom_log
    /\ UNCHANGED <<lockvars, cfgvars, spavars, oclvars, probevars>>

\* the NPU brings the fence state of the brick to the requested one
FenceHw ==
    /\ fence_status # fence_control
    /\ fence_status' = fence_control
    /\ UNCHANGED <<bpc, dev_index, training_state, irq_base, xsl_irq, used_regs,
                   fence_control, fence_k, fence_polls, fence_log, fence_rc, trainvars>>
    /\ UNCHANGED <<lockvars, cfgvars, spavars, oclvars, probevars>>
    /\ UNCHANGED scom_log

\* the registers that setup_irq() and mask_nvlink_fir() write once the
\* interrupts are allocated
IrqRegs ==
    <<"NPU2_MISC_IRQ_BASE", "NPU2_MISC_CFG", "NPU2_MISC_IRQ_ENABLE2",
      "NPU2_MISC_FIR_MASK1", "NPU2_MISC_FREEZE_ENABLE1", "NPU2_MISC_FENCE_ENABLE1",
      "NPU2_MISC_IRQ_ENABLE1">>

\* the probe goes on to the devices whatever setup_irq() returns
ProbeNextIgnoreRc(rc) == "setup_device"

\* rc = setup_irq(n); if (rc) goto failed; ... failed: free(n);
ProbeNext(rc) == IF rc # 0 THEN "probe_failed" ELSE "setup_device"

\* static int setup_irq(struct npu2 *p), after the rest of brick_config(),
\* tl_config() and address_translation_config(): base is what
\* xive_alloc_ipi_irqs() returns, XIVE_IRQ_ERROR when ~ok
setup_irq(base, ok) ==
    LET rc == IF ok THEN 0 ELSE -1 IN
    /\ bpc = "setup_irq"
    /\ irq_base' = IF ok THEN base ELSE irq_base
    /\ irq_regs' = IF ok THEN irq_regs \o IrqRegs ELSE irq_regs
    /\ bpc' = ProbeNext(rc)
    /\ npu' = IF ProbeNext(rc) = "probe_failed" THEN "freed" ELSE npu
    /\ UNCHANGED <<dev_index, training_state, xsl_irq, used_regs, fencevars, trainvars>>
    /\ UNCHANGED <<lockvars, cfgvars, spavars, oclvars, bars_set>>
    /\ UNCHANGED scom_log

\* static void npu2_opencapi_setup_device(), up to set_fence_control(0b00):
\* i2c_found is whether the I2C port of the platform is in the device tree
setup_device(i2c_found) ==
    /\ bpc = "setup_device"
    /\ fence_log' = <<>>
    /\ fence_rc' = <<>>
    /\ bars_set' = i2c_found
    /\ UNCHANGED <<irq_regs, npu>>
    /\ IF i2c_found
       THEN /\ fence_k' = 4
            /\ bpc' = "fence_write"
            /\ UNCHANGED dt_status
       ELSE /\ dt_status' = "error"
            /\ bpc' = "done"
            /\ UNCHANGED fence_k
    /\ UNCHANGED <<dev_index, training_state, irq_base, xsl_irq, used_regs,
                   fence_control, fence_status, fence_polls,
                   train_retries, train_rc, attempts, odl_steps, odl_log, odl_timeout,
                   i2c_i, i2c_failed, phb_registered, tx_enabled, slot>>
    /\ UNCHANGED <<lockvars, cfgvars, spavars, oclvars>>
    /\ UNCHANGED scom_log

\* the link is trained in every training state
TrainSwitchAlwaysTrain ==
    /\ bpc = "train"
    /\ bpc' = "odl_train"
    /\ UNCHANGED <<dev_index, training_state, irq_base, xsl_irq, used_regs, fencevars,
                   trainvars>>
    /\ UNCHANGED <<lockvars, cfgvars, spavars, oclvars, probevars>>
    /\ UNCHANGED scom_log

\* npu2_opencapi_phy_setup(dev) and switch (npu2_ocapi_training_state)
TrainSwitch ==
    /\ bpc = "train"
    /\ bpc' = IF training_state = "NPU2_TRAIN_DEFAULT" THEN "odl_train" ELSE "register"
    /\ UNCHANGED <<dev_index, training_state, irq_base, xsl_irq, used_regs, fencevars,
                   trainvars>>
    /\ UNCHANGED <<lockvars, cfgvars, spavars, oclvars, probevars>>
    /\ UNCHANGED scom_log

\* reg = OB_ODL_CONFIG_RESET; then VERSION 0b000001, TRAIN_MODE 0b0110,
\* SUPPORTED_MODES 0b0010, X4_BACKOFF_ENABLE, PHY_CNTR_LIMIT 0b1111,
\* DEBUG_ENABLE, FWD_PROGRESS_TIMER 0b0110
OdlConfigReset ==
    [RESET |-> 1, VERSION |-> 1, TRAIN_MODE |-> 6, SUPPORTED_MODES |-> 2,
     X4_BACKOFF_ENABLE |-> 1, PHY_CNTR_LIMIT |-> 15, DEBUG_ENABLE |-> 1,
     FWD_PROGRESS_TIMER |-> 6]

\* xscom_write(gcid, config_xscom, reg)
OdlConfigWrite(index, reg) == [op |-> "config", reg |-> odl_config(index), val |-> reg]

\* the local reg of odl_train(): what it has written last
LastConfig(log) ==
    LET w == SelectSeq(log, LAMBDA e : e.op = "config") IN w[Len(w)].val

\* start training before pattern A
TrainModeStartFirst(step) == IF step = "pattern_a" THEN 8 ELSE 1

\* SETFIELD(OB_ODL_CONFIG_TRAIN_MODE, reg, 0b0001) to transmit pattern A,
\* SETFIELD(OB_ODL_CONFIG_TRAIN_MODE, reg, 0b1000) to start training
TrainMode(step) == IF step = "pattern_a" THEN 1 ELSE 8

\* static int odl_train(), up to reset_ocapi_device(): the two writes of the
\* ODL config register, with the reset and without it
OdlReset ==
    /\ bpc = "odl_train"
    /\ attempts' = attempts + 1
    /\ odl_steps' = <<"reset_odl">>
    /\ odl_timeout' = OdlTimeout
    /\ odl_log' = <<OdlConfigWrite(dev_index, OdlConfigReset),
                    OdlConfigWrite(dev_index, [OdlConfigReset EXCEPT !.RESET = 0])>>
    /\ used_regs' = used_regs \cup Use("odl_config", odl_config(dev_index))
    /\ i2c_i' = 0
    /\ i2c_failed' = FALSE
    /\ bpc' = "i2c"
    /\ UNCHANGED <<dev_index, training_state, irq_base, xsl_irq, fencevars,
                   train_retries, train_rc, dt_status, phb_registered, tx_enabled, slot>>
    /\ UNCHANGED <<lockvars, cfgvars, spavars, oclvars, probevars>>
    /\ UNCHANGED scom_log

\* static void reset_ocapi_device(struct npu2_dev *dev), one turn of for (i =
\* 0; i < 3; i++) { rc = i2c_request_send(...); if (rc) { prlog(); break; }
\* ... }: the function returns nothing, odl_train() goes on after it
I2cSend(rc) ==
    /\ bpc = "i2c"
    /\ odl_steps' = Append(odl_steps, "i2c_write")
    /\ odl_log' = Append(odl_log, [op |-> "i2c"])
    /\ UNCHANGED odl_timeout
    /\ IF rc # 0
       THEN /\ i2c_failed' = TRUE
            /\ bpc' = "pattern_a"
            /\ UNCHANGED i2c_i
       ELSE /\ i2c_i' = i2c_i + 1
            /\ bpc' = IF i2c_i + 1 < 3 THEN "i2c" ELSE "pattern_a"
            /\ UNCHANGED i2c_failed
    /\ UNCHANGED <<dev_index, training_state, irq_base, xsl_irq, used_regs, fencevars,
                   train_retries, train_rc, attempts, dt_status, phb_registered,
                   tx_enabled, slot>>
    /\ UNCHANGED <<lockvars, cfgvars, spavars, oclvars, probevars>>
    /\ UNCHANGED scom_log

\* a step of odl_train() after reset_ocapi_device(): the write of TRAIN_MODE
\* 0b0001, npu2_opencapi_bump_ui_lane(dev), the write of TRAIN_MODE 0b1000
OdlStep(at, step, then) ==
    /\ bpc = at
    /\ odl_steps' = Append(odl_steps, step)
    /\ odl_log' = Append(odl_log,
                         IF step = "lane_bump" THEN [op |-> "bump"]
                         ELSE OdlConfigWrite(dev_index,
                                  [LastConfig(odl_log) EXCEPT !.TRAIN_MODE = TrainMode(step)]))
    /\ UNCHANGED odl_timeout
    /\ bpc' = then
    /\ UNCHANGED <<dev_index, training_state, irq_base, xsl_irq, used_regs, fencevars,
                   train_retries, train_rc, attempts, i2c_i, i2c_failed, dt_status,
                   phb_registered, tx_enabled, slot>>
    /\ UNCHANGED <<lockvars, cfgvars, spavars, oclvars, probevars>>
    /\ UNCHANGED scom_log

PatternA == OdlStep("pattern_a", "pattern_a", "bump")

BumpLane == OdlStep("bump", "lane_bump", "start")

StartTraining == OdlStep("start", "start_training", "poll")

\* the loop goes on while the counter, tested before it is decremented, is
\* not 0
TrainAgainPost(rc, n) == rc # "OPAL_SUCCESS" /\ n # 0

\* while (rc != OPAL_SUCCESS && --retries)
TrainAgain(rc, n) == rc # "OPAL_SUCCESS" /\ n - 1 # 0

\* the loop leaves on the value of the counter after the decrement
PollAgainPre(timeout) == timeout - 1 # 0

\* while (timeout--)
PollAgain(timeout) == timeout # 0

\* one turn of do { reg = get_odl_status(gcid, index); if (GETFIELD(
\* OB_ODL_STATUS_TRAINING_STATE_MACHINE, reg) == 0x7) return OPAL_SUCCESS;
\* time_wait_ms(1); } while (timeout--); ... return OPAL_HARDWARE: state is
\* the training state that the read gives.  When odl_train() returns, the
\* condition of the loop in npu2_opencapi_setup_device()
OdlPoll(state) ==
    LET returns == state = 7 \/ ~PollAgain(odl_timeout)
        rc == IF state = 7 THEN "OPAL_SUCCESS" ELSE "OPAL_HARDWARE"
    IN
    /\ bpc = "poll"
    /\ odl_steps' = Append(odl_steps, "status_poll")
    /\ odl_log' = Append(odl_log, [op |-> "status", val |-> state])
    /\ used_regs' = used_regs \cup Use("odl_status", get_odl_status(dev_index))
    /\ IF returns
       THEN /\ train_rc' = rc
            /\ train_retries' = IF rc # "OPAL_SUCCESS" THEN train_retries - 1
                                ELSE train_retries
            /\ bpc' = IF TrainAgain(rc, train_retries) THEN "odl_train" ELSE "after_train"
            /\ odl_timeout' = IF state = 7 THEN odl_timeout ELSE odl_timeout - 1
       ELSE /\ odl_timeout' = odl_timeout - 1
            /\ UNCHANGED <<train_rc, train_retries, bpc>>
    /\ UNCHANGED <<dev_index, training_state, irq_base, xsl_irq, fencevars, attempts,
                   i2c_i, i2c_failed, dt_status, phb_registered, tx_enabled, slot>>
    /\ UNCHANGED <<lockvars, cfgvars, spavars, oclvars, probevars>>
    /\ UNCHANGED scom_log

\* the result of the training is not looked at
TrainFailedNever(rc, n) == FALSE

\* if (rc != OPAL_SUCCESS && retries == 0)
TrainFailed(rc, n) == rc # "OPAL_SUCCESS" /\ n = 0

\* if (rc != OPAL_SUCCESS && retries == 0) { ...; goto failed; }
\* otl_enabletx(); slot = npu2_opencapi_slot_create(); and failed:
\* dt_add_property_string(dn_phb, "status", "error")
AfterTrain ==
    /\ bpc = "after_train"
    /\ IF TrainFailed(train_rc, train_retries)
       THEN /\ dt_status' = "error"
            /\ bpc' = "done"
            /\ UNCHANGED tx_enabled
       ELSE /\ tx_enabled' = TRUE
            /\ bpc' = "slot_create"
            /\ UNCHANGED dt_status
    /\ UNCHANGED <<dev_index, training_state, irq_base, xsl_irq, used_regs, fencevars,
                   train_retries, train_rc, attempts, odl_steps, odl_log, odl_timeout,
                   i2c_i, i2c_failed, phb_registered, slot>>
    /\ UNCHANGED <<lockvars, cfgvars, spavars, oclvars, probevars>>
    /\ UNCHANGED scom_log

\* slot = npu2_opencapi_slot_create(&dev->phb_ocapi); if (!slot) { prlog(); }
\* break;: pci_slot_alloc() gives a slot when allocated
SlotCreate(allocated) ==
    /\ bpc = "slot_create"
    /\ slot' = IF allocated THEN "created" ELSE "NULL"
    /\ bpc' = "register"
    /\ UNCHANGED <<dev_index, training_state, irq_base, xsl_irq, used_regs, fencevars,
                   train_retries, train_rc, attempts, odl_steps, odl_log, odl_timeout,
                   i2c_i, i2c_failed, dt_status, phb_registered, tx_enabled>>
    /\ UNCHANGED <<lockvars, cfgvars, spavars, oclvars, probevars>>
    /\ UNCHANGED scom_log

\* pci_register_phb(&dev->phb_ocapi, OPAL_DYNAMIC_PHB_ID)
RegisterPhb ==
    /\ bpc = "register"
    /\ phb_registered' = TRUE
    /\ bpc' = "final_fixup"
    /\ UNCHANGED <<dev_index, training_state, irq_base, xsl_irq, used_regs, fencevars,
                   train_retries, train_rc, attempts, odl_steps, odl_log, odl_timeout,
                   i2c_i, i2c_failed, dt_status, tx_enabled, slot>>
    /\ UNCHANGED <<lockvars, cfgvars, spavars, oclvars, probevars>>
    /\ UNCHANGED scom_log

\* both stacks add 2 to the level
XslIrqFlat(base, stacku, block) ==
    base + NPU_IRQ_LEVELS_XSL + 2 + (IF block = "OTL1" THEN 1 ELSE 0)

\* irq = dev->npu->irq_base + NPU_IRQ_LEVELS_XSL; if (stacku ==
\* NPU2_STACK_STCK_2U) irq += 2; if (block == NPU2_BLOCK_OTL1) irq++;
XslIrq(base, stacku, block) ==
    base + NPU_IRQ_LEVELS_XSL + (IF stacku = "STCK_2U" THEN 2 ELSE 0)
        + (IF block = "OTL1" THEN 1 ELSE 0)

\* static int npu2_add_mmio_regs(), from npu2_opencapi_final_fixup()
npu2_add_mmio_regs ==
    /\ bpc = "final_fixup"
    /\ used_regs' = used_regs \cup Use("block", index_to_block(dev_index))
                         \cup Use("stacku", index_to_stacku(dev_index))
    /\ xsl_irq' = XslIrq(irq_base, index_to_stacku(dev_index), index_to_block(dev_index))
    /\ bpc' = "done"
    /\ UNCHANGED <<dev_index, training_state, irq_base, fencevars, trainvars>>
    /\ UNCHANGED <<lockvars, cfgvars, spavars, oclvars, probevars>>
    /\ UNCHANGED scom_log

\* tl_config(): the OTL Config 1 Register of a brick after bring-up, the
\* fields TX_DRDY_WAIT, TX_TEMP0_RATE, TX_CRET_FREQ, TX_AGE_FREQ,
\* TX_RS2_HPWAIT, TX_RQ4_HPWAIT and TX_RQ6_HPWAIT at their places in the
\* register; the bits of the templates 1 to 3 are left at 0
TlConfig1 ==
    LET r1 == SETFIELD(PPC_BITMASK(8, 11), {}, 15)
        r2 == SETFIELD(PPC_BITMASK(5, 7), r1, 1)
        r3 == SETFIELD(PPC_BITMASK(32, 34), r2, 1)
        r4 == SETFIELD(PPC_BITMASK(35, 39), r3, 24)
        r5 == SETFIELD(PPC_BITMASK(40, 45), r4, 27)
        r6 == SETFIELD(PPC_BITMASK(46, 51), r5, 27)
    IN  SETFIELD(PPC_BITMASK(52, 57), r6, 27)

\* the reset value of a BDF2PE_MAP0 register and of its cache
Bdf2PeReset == [ENABLE |-> 0, PE |-> 0, BDF |-> 0]

\* ------------------------------------- the configuration space of a brick
\* A 32-bit datum is the record [hi, lo] of its two 16-bit halves.  Each
\* brick has a window in the GENID BAR of its stack: the CONFIG_ADDR cell at
\* the base of the window, and 128 bytes above it the payload, which gives
\* the four bytes of the register the cell names, the lowest byte first.
NoWrite == [offset |-> 0 - 1, data |-> [hi |-> 0, lo |-> 0]]

\* the offsets the callers give, and the register numbers they name
CfgOffsets == {16, 17, 18, 19, 4092, 4094, 4095, 4096}

CfgRegs == {o - (o % 4) : o \in {x \in CfgOffsets : x <= 4095}}

NoCfgCall == [op |-> "none", index |-> 0, offset |-> 0, size |-> 0,
              data |-> [hi |-> 0, lo |-> 0], rc |-> "none", mmio |-> <<>>]

\* the two bricks of a stack use the same window
GenidWindowShared(index) == 0

\* genid_base - dev->bars[1].npu2_bar.base
GenidWindow(index) == IF index_to_block(index) = "OTL1" THEN 256 ELSE 0

\* the check of the range alone
npu2_opencapi_pcicfg_check_range(offset, size) ==
    IF offset > 4095 THEN "OPAL_PARAMETER" ELSE "OPAL_SUCCESS"

\* static int64_t npu2_opencapi_pcicfg_check(struct npu2_dev *dev, uint32_t
\* offset, uint32_t size); the sizes are 1, 2 and 4 and dev is never NULL
npu2_opencapi_pcicfg_check(offset, size) ==
    IF offset > 4095 \/ offset % size # 0 THEN "OPAL_PARAMETER" ELSE "OPAL_SUCCESS"

\* cfg_addr: ENABLE, the BDF fields from bdfn, REGISTER_NUMBER from
\* offset & ~3u
ConfigAddr(bdfn, offset) == [ENABLE |-> 1, BDF |-> bdfn, REG |-> offset - (offset % 4)]

\* the payload is accessed at offset & (size - 1) for every size
PayloadOffsetBySize(offset, size) == offset % size

\* the byte of the payload an access of the size starts at: offset & 3,
\* offset & 2, and 0
PayloadOffset(offset, size) ==
    IF size = 1 THEN offset % 4
    ELSE IF size = 2 THEN ((offset \div 2) % 2) * 2
    ELSE 0

\* out_be64((uint64_t *)genid_base, cfg_addr); sync(); then the access of
\* the payload at genid_base + 128 + the byte of the size: the accesses
\* of a call that is not rejected, as offsets from dev->bars[1].npu2_bar.base
GenidAccesses(access, w, offset, size) ==
    <<[op |-> "out_be64", addr |-> w, size |-> 8],
      [op |-> access, addr |-> w + 128 + PayloadOffset(offset, size), size |-> size]>>

\* the bytes of a datum, the lowest first
LeBytes(data) ==
    <<data.lo % 256, data.lo \div 256, data.hi % 256, data.hi \div 256>>

\* out_8(), out_le16(), out_le32() at byte at of the payload: the bytes of
\* the register after the store of the low size bytes of data
out_le(word, at, size, data) ==
    [j \in 1 .. 4 |-> IF j - 1 \in at .. (at + size - 1)
                      THEN LeBytes(data)[j - at]
                      ELSE word[j]]

\* in_8(), in_le16(), in_le32() at byte at of the payload
in_le(word, at, size) ==
    LET b(k) == IF k < size THEN word[at + k + 1] ELSE 0
    IN  [hi |-> b(2) + 256 * b(3), lo |-> b(0) + 256 * b(1)]

\* (type)data, for the type of the size
CastTo(size, data) == in_le(LeBytes(data), 0, size)

\* static int64_t npu2_opencapi_pcicfg_read(struct phb *phb, uint32_t bdfn,
\* uint32_t offset, uint32_t size, void *data), called by
\* npu2_opencapi_pcicfg_read8, 16 or 32, which sets *data to (type)0xffffffff
\* first
npu2_opencapi_pcicfg_read(index, bdfn, offset, size) ==
    LET rc == npu2_opencapi_pcicfg_check(offset, size)
        w == GenidWindow(index)
        cfg_addr == ConfigAddr(bdfn, offset)
        call == [op |-> "read", index |-> index, offset |-> offset, size |-> size]
    IN
    /\ cfg_calls < MaxCfgCalls
    /\ cfg_calls' = cfg_calls + 1
    /\ IF rc # "OPAL_SUCCESS"
       THEN /\ cfg_last' = call @@ [rc |-> rc, mmio |-> <<>>,
                                    data |-> CastTo(size, [hi |-> 65535, lo |-> 65535])]
            /\ UNCHANGED config_addr
       ELSE /\ config_addr' = [config_addr EXCEPT ![w] = cfg_addr]
            /\ cfg_last' = call @@
                   [rc |-> "OPAL_SUCCESS",
                    mmio |-> GenidAccesses("in_le", w, offset, size),
                    data |-> in_le(config_space[w][cfg_addr.REG],
                                   PayloadOffset(offset, size), size)]
    /\ UNCHANGED <<config_space, cfg_w32>>
    /\ UNCHANGED <<lockvars, spavars, oclvars, bringupvars>>

\* static int64_t npu2_opencapi_pcicfg_write(struct phb *phb, uint32_t bdfn,
\* uint32_t offset, uint32_t size, uint32_t data), called by
\* npu2_opencapi_pcicfg_write8, 16 or 32 with a datum of its type
npu2_opencapi_pcicfg_write(index, bdfn, offset, size, data) ==
    LET rc == npu2_opencapi_pcicfg_check(offset, size)
        w == GenidWindow(index)
        cfg_addr == ConfigAddr(bdfn, offset)
        call == [op |-> "write", index |-> index, offset |-> offset, size |-> size,
                 data |-> CastTo(size, data)]
    IN
    /\ cfg_calls < MaxCfgCalls
    /\ cfg_calls' = cfg_calls + 1
    /\ cfg_last' = call @@ [rc |-> rc,
                             mmio |-> IF rc # "OPAL_SUCCESS" THEN <<>>
                                      ELSE GenidAccesses("out_le", w, offset, size)]
    /\ IF rc # "OPAL_SUCCESS"
       THEN UNCHANGED <<config_addr, config_space, cfg_w32>>
       ELSE /\ config_addr' = [config_addr EXCEPT ![w] = cfg_addr]
            /\ config_space' =
                   [config_space EXCEPT ![w][cfg_addr.REG] =
                        out_le(@, PayloadOffset(offset, size), size, CastTo(size, data))]
            /\ cfg_w32' = [cfg_w32 EXCEPT ![w] =
                               IF size = 4 THEN [offset |-> offset, data |-> data]
                               ELSE NoWrite]
    /\ UNCHANGED <<lockvars, spavars, oclvars, bringupvars>>

\* ------------------------------------------------------------- specification
\* the locks in the console path: none, or the last one
ConPaths == {[l \in AllLocks |-> FALSE], [l \in AllLocks |-> l = NumLocks]}

\* the states of the CPUs: all active, or the boot CPU in the OS and the
\* others not running skiboot code paths that register lock requests
CpuStateConfigs == {[c \in CPUS |-> "active"],
                    [c \in CPUS |-> IF c = 0 THEN "os" ELSE "disabled"]}

\* npu2_opencapi_probe() is over, a brick trained at the first attempt: the
\* histories of the bring-up are not kept
BringupDone ==
    /\ bpc = "done"
    /\ dev_index = 2
    /\ training_state = "NPU2_TRAIN_DEFAULT"
    /\ irq_base = 0
    /\ xsl_irq = NPU_IRQ_LEVELS_XSL
    /\ used_regs = {}
    /\ irq_regs = IrqRegs
    /\ npu = "allocated"
    /\ bars_set = TRUE
    /\ scom_log = <<>>
    /\ fence_control = 0
    /\ fence_status = 0
    /\ fence_k = 4
    /\ fence_polls = 0
    /\ fence_log = <<>>
    /\ fence_rc = <<>>
    /\ train_retries = LINK_TRAINING_RETRIES
    /\ train_rc = "OPAL_SUCCESS"
    /\ attempts = 1
    /\ odl_steps = <<>>
    /\ odl_log = <<>>
    /\ odl_timeout = 0
    /\ i2c_i = 0
    /\ i2c_failed = FALSE
    /\ dt_status = "okay"
    /\ phb_registered = TRUE
    /\ tx_enabled = TRUE
    /\ slot = "created"

\* the registers after the bring-up of the bricks: the SPAP registers are
\* disabled (their reset value), OTL_CONFIG0 and OTL_CONFIG1 are as
\* tl_config() wrote them, and no CPU is in an OPAL call
OpalInit ==
    /\ spap = [r \in {SpapReg(i) : i \in Bricks} |-> [page |-> 0, low |-> 0]]
    /\ otl_config0 = [i \in Bricks |-> TlConfig0(i)]
    /\ spa_rc = "none"
    /\ spa_trail = <<>>
    /\ npu_lock = {}
    /\ llcmd = [r \in {LlcmdReg(i) : i \in Bricks} |-> {}]
    /\ otl_config1 = [i \in Bricks |-> TlConfig1]
    /\ bdf2pe_map = [i \in Bricks |-> Bdf2PeReset]
    /\ bdf2pe_cache = [i \in Bricks |-> Bdf2PeReset]
    /\ opc = [c \in CPUS |-> "idle"]
    /\ oarg = [c \in CPUS |-> NoCall]
    /\ oreg = [c \in CPUS |-> {}]
    /\ retries = [c \in CPUS |-> 0]
    /\ orc = [c \in CPUS |-> "none"]
    /\ ncalls = 0
    /\ acc = [c \in CPUS |-> <<>>]
    /\ config_addr = [w \in {0, 256} |-> [ENABLE |-> 0, BDF |-> 0, REG |-> 0]]
    /\ config_space = [w \in {0, 256} |-> [r \in CfgRegs |-> <<0, 0, 0, 0>>]]
    /\ cfg_last = NoCfgCall
    /\ cfg_w32 = [w \in {0, 256} |-> NoWrite]
    /\ cfg_calls = 0

NpuInit == OpalInit /\ BringupDone

Init ==
    /\ DEBUG_LOCKS \in BOOLEAN
    /\ bust_locks = TRUE
    /\ locks_inited = FALSE
    /\ lock_val = [l \in AllLocks |-> LOCK_UNLOCKED]
    /\ owner = [l \in AllLocks |-> NoLabel]
    /\ in_con_path \in ConPaths
    /\ cpu_state \in CpuStateConfigs
    /\ con_suspend = [c \in CPUS |-> 0]
    /\ con_need_flush = [c \in CPUS |-> FALSE]
    /\ requested_lock = [c \in CPUS |-> NULL]
    /\ locks_held = [c \in CPUS |-> <<>>]
    /\ pc = [c \in CPUS |-> "idle"]
    /\ op = [c \in CPUS |-> NoOp]
    /\ ret = [c \in CPUS |-> "none"]
    /\ cur = [c \in CPUS |-> NULL]
    /\ ctx = [c \in CPUS |-> "none"]
    /\ walk = [c \in CPUS |-> NoWalk]
    /\ lock_err = [c \in CPUS |-> "none"]
    /\ fast_reboot_disabled = FALSE
    /\ flushed = [c \in CPUS |-> FALSE]
    /\ NpuInit

\* the steps inside the lock code, and the calls other than unlock()
LockSteps ==
    \/ init_locks
    \/ \E c \in CPUS, l \in Locks : TryLock(c, l)
    \/ \E c \in CPUS, l \in Locks : LockStart(c, l)
    \/ \E c \in CPUS, l \in Locks : LockRecursiveStart(c, l)
    \/ \E c \in CPUS, warn \in BOOLEAN : DropStart(c, warn)
    \/ \E c \in CPUS : LockEntry(c)
    \/ \E c \in CPUS : LockCheck2(c)
    \/ \E c \in CPUS : LockFast(c)
    \/ \E c \in CPUS : AlrTry(c)
    \/ \E c \in CPUS : AlrSpin(c)
    \/ \E c \in CPUS : WalkCell(c)
    \/ \E c \in CPUS : WalkOwner(c)
    \/ \E c \in CPUS : WalkReq(c)
    \/ \E c \in CPUS : AlrUnlock(c)
    \/ \E c \in CPUS : SpinTry(c)
    \/ \E c \in CPUS : SpinWait(c)
    \/ \E c \in CPUS : LockRemove(c)
    \/ \E c \in CPUS : UnlockCheck2(c)
    \/ \E c \in CPUS : UnlockRelease(c)
    \/ \E c \in CPUS : DropLoop(c)
    \/ \E c \in CPUS : Return(c)
    \/ \E c \in CPUS : ConsoleWrite(c)

\* any CPU may call any operation on any lock, unlock() of a lock it does not
\* hold included
Next ==
    \/ LockSteps
    \/ \E c \in CPUS, l \in Locks : UnlockStart(c, l)

Spec == Init /\ [][Next]_vars

\* the callers keep the calling convention of unlock(): a CPU unlocks only a
\* lock it holds
OwnUnlock(c, l) == lock_held_by_me(c, l) /\ UnlockStart(c, l)

NextOwnUnlock ==
    \/ LockSteps
    \/ \E c \in CPUS, l \in Locks : OwnUnlock(c, l)

SpecOwnUnlock == Init /\ [][NextOwnUnlock]_vars

\* every CPU calls try_lock() once, on locks that are free, with bust_locks off
InitTryLock ==
    /\ DEBUG_LOCKS \in BOOLEAN
    /\ bust_locks = FALSE
    /\ locks_inited = TRUE
    /\ lock_val = [l \in AllLocks |-> LOCK_UNLOCKED]
    /\ owner = [l \in AllLocks |-> NoLabel]
    /\ in_con_path \in [AllLocks -> BOOLEAN]
    /\ cpu_state \in CpuStateConfigs
    /\ con_suspend = [c \in CPUS |-> 0]
    /\ con_need_flush = [c \in CPUS |-> FALSE]
    /\ requested_lock = [c \in CPUS |-> NULL]
    /\ locks_held = [c \in CPUS |-> <<>>]
    /\ pc = [c \in CPUS |-> "idle"]
    /\ op = [c \in CPUS |-> NoOp]
    /\ ret = [c \in CPUS |-> "none"]
    /\ cur = [c \in CPUS |-> NULL]
    /\ ctx = [c \in CPUS |-> "none"]
    /\ walk = [c \in CPUS |-> NoWalk]
    /\ lock_err = [c \in CPUS |-> "none"]
    /\ fast_reboot_disabled = FALSE
    /\ flushed = [c \in CPUS |-> FALSE]
    /\ NpuInit

NextTryLock == \E c \in CPUS, l \in Locks : TryLock(c, l)

SpecTryLock == InitTryLock /\ [][NextTryLock]_vars

\* the OS calls OPAL_NPU_SPA_SETUP, the locks initialised and free
InitSpa ==
    /\ InitTryLock
    /\ ~DEBUG_LOCKS
    /\ in_con_path = [l \in AllLocks |-> FALSE]
    /\ cpu_state = [c \in CPUS |-> "active"]

NextSpa ==
    \E phb_id \in PhbIds, addr \in SpaAddrs, PE_mask \in PeMasks :
        opal_npu_spa_setup(phb_id, addr, PE_mask)

SpecSpa == InitSpa /\ [][NextSpa]_vars

\* the arguments the OS makes the OPAL calls with
PeHandles == {5, MAX_PE_HANDLE, MAX_PE_HANDLE + 1}

\* a rate buffer whose bytes 30 and 31 are b30 and b31
RateBuf(b30, b31) ==
    [k \in 1 .. TL_RATE_BUF_SIZE |-> IF k = 31 THEN b30 ELSE IF k = 32 THEN b31 ELSE 255]

RateBytes == {0, 31, 165, 240}

Rates ==
    {[valid |-> TRUE, buf |-> RateBuf(b30, b31)] : b30, b31 \in RateBytes}
        \cup {[valid |-> FALSE, buf |-> RateBuf(0, 0)]}

Capabilities == {1, 3, 5, 6, 9, 15, 17}

PeNums == {3, NPU2_MAX_PE_NUM}

Bdfns == {0, 8, 256}

KeySets == {SupportedKeys,
            <<"OpalPciBus7Bits", "OPAL_COMPARE_RID_DEVICE_NUMBER",
              "OPAL_COMPARE_RID_FUNCTION_NUMBER">>}

PeActions == {"OPAL_MAP_PE", "OPAL_UNMAP_PE", "OPAL_RESERVED"}

\* the steps of the OPAL calls a CPU has entered
OpalStep(c) ==
    \/ ClearCacheLock(c)
    \/ ClearCacheRead(c)
    \/ ClearCacheWrite(c)
    \/ ClearCachePoll(c)
    \/ ClearCacheOut(c)
    \/ TlSetRead(c)
    \/ TlSetWrite(c)
    \/ SetPeCache(c)
    \/ SetPeWrite(c)

\* the CPUs of the OS make OPAL calls on the bricks of one NPU, at any time
NextOpal ==
    \/ \E c \in CPUS, phb_id \in {1, 2, 3}, PE_handle \in {5, MAX_PE_HANDLE + 1} :
           ClearCacheEntry(c, phb_id, PE_handle)
    \/ \E c \in CPUS, phb_id \in {1, 2}, capabilities \in {6, 9},
          rate \in {[valid |-> v, buf |-> RateBuf(16, 15)] : v \in BOOLEAN},
          rate_sz \in {16, TL_RATE_BUF_SIZE} :
           TlSetEntry(c, phb_id, capabilities, rate, rate_sz)
    \/ \E c \in CPUS, pe_num \in PeNums, bdfn \in Bdfns, keys \in KeySets,
          action \in {"OPAL_MAP_PE", "OPAL_RESERVED"} :
           SetPeEntry(c, 2, pe_num, bdfn, keys, action)
    \/ \E phb_id \in {1, 2}, addr \in {[page |-> 1, low |-> 0], [page |-> 1, low |-> 8]},
          PE_mask \in {5, 16} :
           opal_npu_spa_setup(phb_id, addr, PE_mask)
    \/ \E c \in CPUS : OpalStep(c)
    \/ \E r \in DOMAIN llcmd : XslDone(r)

SpecOpal == InitSpa /\ [][NextOpal]_vars

\* the OS makes OPAL_NPU_TL_SET calls one after the other, from one CPU
NextTlSet ==
    \/ \E phb_id \in PhbIds, capabilities \in Capabilities, rate \in Rates,
          rate_sz \in {16, TL_RATE_BUF_SIZE} :
           TlSetEntry(0, phb_id, capabilities, rate, rate_sz)
    \/ TlSetRead(0)
    \/ TlSetWrite(0)

SpecTlSet == InitSpa /\ [][NextTlSet]_vars

\* the OS makes OPAL_PCI_SET_PE calls on the bricks of a stack, one after the
\* other, from one CPU
NextSetPe ==
    \/ \E index \in Bricks, pe_num \in {0, 3, NPU2_MAX_PE_NUM - 1, NPU2_MAX_PE_NUM},
          bdfn \in Bdfns \cup {255}, keys \in KeySets, action \in PeActions :
           SetPeEntry(0, index, pe_num, bdfn, keys, action)
    \/ SetPeCache(0)
    \/ SetPeWrite(0)

SpecSetPe == InitSpa /\ [][NextSetPe]_vars

\* the link indexes of the device tree, the bases xive_alloc_ipi_irqs()
\* gives, and the results of i2c_request_send()
LinkIndexes == 0 .. 6

IrqBases == {0, 64, 4032}

\* the training states that a read of the ODL status gives: 0x7 is trained
OdlStates == {0, 7}

I2cRcs == {0, 0 - 1}

TrainingStates == {"NPU2_TRAIN_DEFAULT", "NPU2_TRAIN_PRBS31", "NPU2_TRAIN_NONE"}

\* what nvram_query("opencapi-link-training") gives: "NULL" when the setting
\* is absent
NvramSettings == {"NULL", "prbs31", "none", "default", "PRBS31"}

\* static void read_nvram_training_state(void): the value of
\* npu2_ocapi_training_state after it, from its initial NPU2_TRAIN_DEFAULT
read_nvram_training_state(state) ==
    IF state = "NULL" THEN "NPU2_TRAIN_DEFAULT"
    ELSE IF state = "prbs31" THEN "NPU2_TRAIN_PRBS31"
    ELSE IF state = "none" THEN "NPU2_TRAIN_NONE"
    ELSE "NPU2_TRAIN_DEFAULT"

\* npu2_opencapi_probe() is entered for a link: nothing is configured
BringupStart ==
    /\ bpc = "brick_config"
    /\ dev_index \in LinkIndexes
    /\ training_state \in {read_nvram_training_state(s) : s \in NvramSettings}
    /\ irq_base = 0
    /\ xsl_irq = NoIrq
    /\ used_regs = {}
    /\ irq_regs = <<>>
    /\ npu = "allocated"
    /\ bars_set = FALSE
    /\ scom_log = <<>>
    /\ fence_control = 0
    /\ fence_status = 0
    /\ fence_k = 0
    /\ fence_polls = 0
    /\ fence_log = <<>>
    /\ fence_rc = <<>>
    /\ train_retries = LINK_TRAINING_RETRIES
    /\ train_rc = "none"
    /\ attempts = 0
    /\ odl_steps = <<>>
    /\ odl_log = <<>>
    /\ odl_timeout = 0
    /\ i2c_i = 0
    /\ i2c_failed = FALSE
    /\ dt_status = "none"
    /\ phb_registered = FALSE
    /\ tx_enabled = FALSE
    /\ slot = "none"

\* the boot CPU brings a link up; the locks are free and no OPAL call is made
InitBringup ==
    /\ DEBUG_LOCKS = FALSE
    /\ bust_locks = FALSE
    /\ locks_inited = TRUE
    /\ lock_val = [l \in AllLocks |-> LOCK_UNLOCKED]
    /\ owner = [l \in AllLocks |-> NoLabel]
    /\ in_con_path = [l \in AllLocks |-> FALSE]
    /\ cpu_state = [c \in CPUS |-> "active"]
    /\ con_suspend = [c \in CPUS |-> 0]
    /\ con_need_flush = [c \in CPUS |-> FALSE]
    /\ requested_lock = [c \in CPUS |-> NULL]
    /\ locks_held = [c \in CPUS |-> <<>>]
    /\ pc = [c \in CPUS |-> "idle"]
    /\ op = [c \in CPUS |-> NoOp]
    /\ ret = [c \in CPUS |-> "none"]
    /\ cur = [c \in CPUS |-> NULL]
    /\ ctx = [c \in CPUS |-> "none"]
    /\ walk = [c \in CPUS |-> NoWalk]
    /\ lock_err = [c \in CPUS |-> "none"]
    /\ fast_reboot_disabled = FALSE
    /\ flushed = [c \in CPUS |-> FALSE]
    /\ OpalInit
    /\ BringupStart

NextBringup ==
    \/ brick_config
    \/ set_npcq_config
    \/ FenceWrite
    \/ \E timed_out \in BOOLEAN : FenceRead(timed_out)
    \/ FenceHw
    \/ \E base \in IrqBases, ok \in BOOLEAN : setup_irq(base, ok)
    \/ \E i2c_found \in BOOLEAN : setup_device(i2c_found)
    \/ TrainSwitch
    \/ OdlReset
    \/ \E rc \in I2cRcs : I2cSend(rc)
    \/ PatternA
    \/ BumpLane
    \/ StartTraining
    \/ \E state \in OdlStates : OdlPoll(state)
    \/ AfterTrain
    \/ \E allocated \in BOOLEAN : SlotCreate(allocated)
    \/ RegisterPhb
    \/ npu2_add_mmio_regs

SpecBringup == InitBringup /\ [][NextBringup]_vars

\* the steps of the CPU that brings the brick up: all of NextBringup but the
\* step of the hardware
BringupCpu ==
    \/ brick_config
    \/ set_npcq_config
    \/ FenceWrite
    \/ \E timed_out \in BOOLEAN : FenceRead(timed_out)
    \/ \E base \in IrqBases, ok \in BOOLEAN : setup_irq(base, ok)
    \/ \E i2c_found \in BOOLEAN : setup_device(i2c_found)
    \/ TrainSwitch
    \/ OdlReset
    \/ \E rc \in I2cRcs : I2cSend(rc)
    \/ PatternA
    \/ BumpLane
    \/ StartTraining
    \/ \E state \in OdlStates : OdlPoll(state)
    \/ AfterTrain
    \/ \E allocated \in BOOLEAN : SlotCreate(allocated)
    \/ RegisterPhb
    \/ npu2_add_mmio_regs

\* the boot CPU runs the bring-up without yielding and the timebase goes on:
\* a poll loop makes its next turn, and the turns that fit before the
\* deadline are counted
SpecBringupFair == SpecBringup /\ WF_vars(BringupCpu)

\* the data of the configuration-space writes: 0xDEADBEEF and 0x01020304
CfgData == {[hi |-> 57005, lo |-> 48879], [hi |-> 258, lo |-> 772]}

\* the OS reads and writes the configuration spaces of the two bricks of a
\* stack, one call after the other
NextCfg ==
    \/ \E index \in Bricks, offset \in CfgOffsets, size \in {1, 2, 4} :
           npu2_opencapi_pcicfg_read(index, 0, offset, size)
    \/ \E index \in Bricks, offset \in CfgOffsets, size \in {1, 2, 4},
          data \in CfgData :
           npu2_opencapi_pcicfg_write(index, 0, offset, size, data)

SpecCfg == InitSpa /\ [][NextCfg]_vars

\* a CPU that has entered an OPAL call runs it on: the OS may stop calling
\* and the XSL may never complete a command
SpecOpalFair == SpecOpal /\ \A c \in CPUS : WF_vars(OpalStep(c))

\* the callers take the locks in the order of their numbers: c holds no lock
\* from l on
HoldsNoneFrom(c, l) == \A k \in Locks : k >= l => ~lock_held_by_me(c, k)

\* the steps of the CPU c inside lock(), try_lock() and unlock(), and its
\* going on after a call
LockCodeStep(c) ==
    \/ LockCheck2(c)
    \/ LockFast(c)
    \/ AlrTry(c)
    \/ AlrSpin(c)
    \/ WalkCell(c)
    \/ WalkOwner(c)
    \/ WalkReq(c)
    \/ AlrUnlock(c)
    \/ SpinTry(c)
    \/ SpinWait(c)
    \/ LockRemove(c)
    \/ UnlockCheck2(c)
    \/ UnlockRelease(c)
    \/ Return(c)

\* the CPUs are active, the locks are free and none is in the console path
InitLockFair ==
    /\ InitTryLock
    /\ in_con_path = [l \in AllLocks |-> FALSE]
    /\ cpu_state = [c \in CPUS |-> "active"]

\* the callers call lock() and try_lock() in the order of the locks, and
\* unlock() on the locks they hold
NextLockFair ==
    \/ \E c \in CPUS, l \in Locks : HoldsNoneFrom(c, l) /\ LockStart(c, l)
    \/ \E c \in CPUS, l \in Locks : HoldsNoneFrom(c, l) /\ TryLock(c, l)
    \/ \E c \in CPUS, l \in Locks : OwnUnlock(c, l)
    \/ \E c \in CPUS : LockCodeStep(c)

\* a CPU inside a call runs on, and a CPU that holds a lock comes to unlock
\* it
SpecLockFair ==
    /\ InitLockFair /\ [][NextLockFair]_vars
    /\ \A c \in CPUS : WF_vars(LockCodeStep(c))
    /\ \A c \in CPUS, l \in Locks : SF_vars(OwnUnlock(c, l))

\* ------------------------------------------------------------------ claims
\* c owns l: the held bit of the cell is set and its owner field is c's PIR
Owns(c, l) == HeldBit(lock_val[l]) = 1 /\ OwnerField(lock_val[l]) = c

\* the CPUs whose try_lock(l) has returned
Callers(l) == {c \in CPUS : pc[c] = "done" /\ op[c].api = "try_lock" /\ op[c].l = l}

\* C1: with bust_locks off and the locks free, when the CPUs call try_lock(l)
\* in any order, exactly one call returns true and the cell holds
\* (pir << 32) | 1 of that CPU; every other call returns false and changed
\* neither the cell, nor its caller's held list, nor its con_suspend
C1_OneWinner ==
    \A l \in Locks :
        Callers(l) # {} =>
            \E w \in Callers(l) :
                /\ ret[w] = "true"
                /\ lock_val[l] = [hi |-> w, lo |-> 1]
                /\ locks_held[w] = <<l>>
                /\ \A c \in Callers(l) \ {w} :
                       /\ ret[c] = "false"
                       /\ locks_held[c] = <<>>
                       /\ con_suspend[c] = 0

\* every CPU has called try_lock() on the same lock
C1_Witness == \E l \in Locks : Callers(l) = CPUS

\* C2, in every state: a cell is 0 or (pir << 32) | 1 for the PIR of a CPU
CellWellFormed ==
    \A l \in AllLocks :
        \/ lock_val[l] = [hi |-> 0, lo |-> 0]
        \/ \E p \in CPUS : lock_val[l] = [hi |-> p, lo |-> 1]

\* C2, in every step: a cell changes only from 0 to (pir << 32) | 1 of the
\* CPU that takes the step and links the lock on its held list, or to 0
CellStep ==
    \A l \in AllLocks :
        lock_val'[l] # lock_val[l] =>
            \/ lock_val'[l] = [hi |-> 0, lo |-> 0]
            \/ /\ lock_val[l] = [hi |-> 0, lo |-> 0]
               /\ \E c \in CPUS :
                      /\ lock_val'[l] = [hi |-> c, lo |-> 1]
                      /\ pc'[c] # pc[c]
                      /\ locks_held'[c] = <<l>> \o locks_held[c]

\* C2: every lock cell is either 0 or (pir << 32) | 1 where pir is the PIR of
\* a CPU, and the owner of a held cell is the CPU that acquired it last,
\* whatever try_lock, lock, lock_recursive, unlock and drop_my_locks the CPUs
\* call
C2_CellOwner == []CellWellFormed /\ [][CellStep]_vars

\* CPU 1 holds a lock it took after CPU 0 had held and released it
C2_Witness ==
    \E l \in Locks :
        /\ lock_val[l] = [hi |-> 1, lo |-> 1]
        /\ op[0].api = "unlock" /\ op[0].l = l /\ op[0].mine /\ pc[0] = "done"

\* the step in which the unlock(l) that c called on a lock it held, with
\* bust_locks off, returns
UnlockReturns(c, l) ==
    /\ op'[c].api = "unlock" /\ op'[c].l = l /\ op'[c].mine
    /\ pc'[c] = "done"
    /\ \/ pc[c] = "idle" /\ ~bust_locks
       \/ pc[c] = "unlock_release"

\* C3: after unlock(l) of a lock the caller held (bust_locks off) has returned,
\* lock_held_by_me(l) is false, the cell of l is 0 and the caller's locks_held
\* list no longer contains l, while every other lock the caller held is still
\* on the list and still owned by it
C3_Unlock ==
    [][\A c \in CPUS, l \in Locks :
          UnlockReturns(c, l) =>
              /\ ~lock_held_by_me(c, l)'
              /\ lock_val'[l] = LOCK_UNLOCKED
              /\ ~InList(locks_held'[c], l)
              /\ \A m \in AllLocks \ {l} :
                     /\ InList(locks_held[c], m) => InList(locks_held'[c], m)
                     /\ Owns(c, m) => Owns(c, m)']_vars

\* an unlock() has returned to a caller that still holds its other locks
C3_Witness ==
    \E c \in CPUS :
        /\ pc[c] = "done" /\ op[c].api = "unlock" /\ op[c].mine
        /\ ~bust_locks
        /\ lock_val[op[c].l] = LOCK_UNLOCKED
        /\ locks_held[c] # <<>>
        /\ \A m \in Locks \ {op[c].l} : Owns(c, m) /\ InList(locks_held[c], m)

\* the step in which the lock_recursive() that c called returns, bust_locks
\* being off
RecursiveReturns(c) ==
    /\ op'[c].api = "lock_recursive"
    /\ pc[c] # "done"
    /\ pc'[c] = "done"
    /\ ~bust_locks

WrongUnlockStep(c) ==
    \/ pc[c] = "idle" /\ op'[c].api = "unlock" /\ ~op'[c].mine /\ ~bust_locks
    \/ /\ pc[c] = "unlock_check2" /\ pc'[c] # pc[c]
       /\ ctx[c] = "api" /\ ~op[c].mine

\* the unlock() of c is detected, or not yet through its checks
Detected(c) ==
    \/ /\ pc'[c] = "aborted" /\ bust_locks' /\ lock_err'[c] # "none"
       /\ UNCHANGED <<lock_val, locks_held>>
    \/ /\ pc'[c] = "unlock_check2"
       /\ UNCHANGED <<lock_val, locks_held, bust_locks>>

WaitsFor(c) ==
    IF c \notin CPUS \/ requested_lock[c] = NULL THEN -1
    ELSE IF HeldBit(lock_val[requested_lock[c]]) = 0 THEN -1
    ELSE IF in_con_path[requested_lock[c]] THEN -1
    ELSE OwnerField(lock_val[requested_lock[c]])

RECURSIVE Hop(_, _)
\* the CPU at the end of the wait-for chain of n links that starts at c
Hop(c, n) == IF n = 0 THEN c ELSE WaitsFor(Hop(c, n - 1))

\* the CPUs of the wait-for cycle of length n through c
Cycle(c, n) == {Hop(c, k) : k \in 0 .. (n - 1)}

\* c is on a wait-for cycle of n CPUs
OnCycle(c, n) == Hop(c, n) = c /\ Cardinality(Cycle(c, n)) = n

\* c is past add_lock_request and spins for its lock
Spinning(c) == pc[c] \in {"spin_try", "spin_wait"}

\* C6: with the deadlock detector compiled in and all CPUs active or os, the
\* lock() whose request closes a wait-for cycle of 2 up to NumCpus CPUs, no
\* lock of which is in the console path, reports "Deadlock detected" and
\* aborts instead of spinning: the CPUs of a cycle never all spin
C6_CycleReported ==
    \A c \in CPUS, n \in 2 .. NumCpus :
        /\ DEBUG_LOCKS /\ ~bust_locks
        /\ \A d \in CPUS : cpu_state[d] \in {"active", "os"}
        /\ OnCycle(c, n)
        => \E d \in Cycle(c, n) : ~Spinning(d)

\* C7: drop_my_locks(warn) by a CPU that holds locks returns without a fatal
\* lock error, and when it has returned (bust_locks off) the CPU's locks_held
\* list is empty, no cell names the CPU as owner and fast reboot is disabled
C7_DropReleasesAll ==
    \A c \in CPUS :
        op[c].api = "drop_my_locks" =>
            /\ lock_err[c] = "none"
            /\ pc[c] = "done" /\ ~bust_locks =>
                   /\ locks_held[c] = <<>>
                   /\ \A l \in AllLocks : ~Owns(c, l)
                   /\ fast_reboot_disabled

\* c calls try_lock, lock, unlock or lock_recursive while bust_locks is true
BustCall(c) ==
    /\ bust_locks
    /\ pc[c] = "idle"
    /\ op'[c].api \in {"try_lock", "lock", "unlock", "lock_recursive"}

\* what a call returns while bust_locks is true
BustRet(api) ==
    CASE api = "try_lock" -> "true"
      [] api = "lock_recursive" -> "false"
      [] OTHER -> "void"

\* C8: while bust_locks is true, try_lock, lock, unlock and lock_recursive
\* return at once, without a fatal error, and leave every lock cell, every
\* owner label, every CPU's locks_held list, con_suspend and requested_lock
\* unchanged; try_lock returns true and lock_recursive returns false.
\* init_locks() turns bust_locks off, and then a try_lock of a free lock
\* takes it and a lock() enters the lock code
C8_BustNoOps ==
    [][/\ \A c \in CPUS :
              BustCall(c) =>
                  /\ pc'[c] = "done"
                  /\ ret'[c] = BustRet(op'[c].api)
                  /\ UNCHANGED <<lock_val, owner, locks_held, con_suspend,
                                 requested_lock, bust_locks, lock_err>>
       /\ ~locks_inited /\ locks_inited' => ~bust_locks'
       /\ \A c \in CPUS :
              ~bust_locks /\ pc[c] = "idle" =>
                  /\ op'[c].api = "try_lock" /\ lock_val[op'[c].l] = LOCK_UNLOCKED
                         => lock_val'[op'[c].l] = [hi |-> c, lo |-> 1]
                  /\ op'[c].api = "lock" => pc'[c] \in {"lock_check2", "lock_fast"}]_vars

\* before init_locks() a try_lock has returned true, the cell of its lock
\* still free, and a lock_recursive has returned false
C8_Witness ==
    /\ ~locks_inited
    /\ pc[0] = "done" /\ op[0].api = "try_lock" /\ ret[0] = "true"
    /\ lock_val[op[0].l] = LOCK_UNLOCKED /\ locks_held[0] = <<>>
    /\ pc[1] = "done" /\ op[1].api = "lock_recursive" /\ ret[1] = "false"

\* C9: in every state with bust_locks off, a CPU's locks_held list is
\* non-empty if and only if at least one lock cell has the held bit set with
\* that CPU's PIR as owner
C9_HeldListIffOwner ==
    \A c \in CPUS :
        ~bust_locks => (locks_held[c] # <<>> <=> \E l \in AllLocks : Owns(c, l))

\* the step is a SPA_SETUP call with valid parameters on brick i, of address a
SpaCall(i, a) ==
    /\ Len(spa_trail') = Len(spa_trail) + 1
    /\ spa_trail'[Len(spa_trail')].index = i
    /\ spa_trail'[Len(spa_trail')].addr = a

\* the calls of the trail that were made on brick i
RECURSIVE OnBrick(_, _)
OnBrick(t, i) ==
    IF t = <<>> THEN <<>>
    ELSE IF Head(t).index = i THEN <<Head(t)>> \o OnBrick(Tail(t), i)
    ELSE OnBrick(Tail(t), i)

\* C10, each call: a call with valid parameters and addr != 0 returns Success
\* iff the enable bit of the SPAP register is clear on entry, and then the
\* register holds addr | EN; a call with addr = 0 returns Success iff the
\* enable bit is set on entry, and then the register holds 0; in every other
\* case the call returns Busy and writes neither the SPAP register nor
\* OTL_CONFIG0
SpaStep ==
    \A i \in Bricks, a \in SpaAddrs :
        SpaCall(i, a) =>
            LET en == spap[SpapReg(i)].low % 2 = 1
                ok == IF a.page # 0 THEN ~en ELSE en
            IN  /\ spa_rc' = IF ok THEN "OPAL_SUCCESS" ELSE "OPAL_BUSY"
                /\ ok /\ a.page # 0 =>
                       spap'[SpapReg(i)] = [page |-> a.page, low |-> 1]
                /\ ok /\ a.page = 0 =>
                       spap'[SpapReg(i)] = [page |-> 0, low |-> 0]
                /\ ~ok => UNCHANGED <<spap, otl_config0>>

\* C10, the sequence: on a brick, install(X), install(Y != 0), clear, clear
\* return Success, Busy, Success, Busy
SpaSequence ==
    \A i \in Bricks :
        LET t == OnBrick(spa_trail, i) IN
        /\ Len(t) = 4
        /\ t[1].addr.page # 0 /\ t[2].addr.page # 0
        /\ t[3].addr.page = 0 /\ t[4].addr.page = 0
        => <<t[1].rc, t[2].rc, t[3].rc, t[4].rc>> =
               <<"OPAL_SUCCESS", "OPAL_BUSY", "OPAL_SUCCESS", "OPAL_BUSY">>

\* C10: for any sequence of SPA_SETUP calls with valid parameters on one
\* brick, a call returns Success exactly when the enable bit of the brick's
\* SPAP register disagrees with the requested direction, and then the register
\* holds addr | EN, or 0; otherwise it returns Busy and writes nothing, so the
\* installed address and PE mask stay.  Hence install(X), install(Y != 0),
\* clear, clear returns Success, Busy, Success, Busy
C10_SpaSetup == [][SpaStep]_vars /\ []SpaSequence

\* install(X), install(Y), clear, clear have been called on brick 2 with
\* X # Y, and the second clear has returned
C10_Witness ==
    /\ Len(spa_trail) = 4
    /\ \A k \in 1 .. 4 : spa_trail[k].index = 2
    /\ spa_trail[1].addr.page = 1 /\ spa_trail[2].addr.page = 2
    /\ spa_trail[3].addr.page = 0 /\ spa_trail[4].addr.page = 0
    /\ spa_rc = "OPAL_BUSY"
    /\ otl_config0[2].PE_MASK = 5

\* the registers of the bricks and the BDF-to-PE cache
OclState == <<spap, otl_config0, llcmd, otl_config1, bdf2pe_map, bdf2pe_cache>>

CallerFault == {"OPAL_PARAMETER", "OPAL_UNSUPPORTED"}

\* a step in which an OPAL call is made and returns from the validation of
\* its arguments: a call is counted and no CPU has moved into a call
RejectStep == ncalls' = ncalls + 1 /\ opc' = opc

\* C11, a step: a call that returns from its validation returns
\* InvalidParameter or Unsupported and leaves the registers, the cache and
\* the lock as they were; a call that has passed it returns neither; a
\* SPA_SETUP that returns InvalidParameter leaves them as they were too
FaultStep ==
    /\ RejectStep =>
           /\ \E c \in CPUS : orc'[c] \in CallerFault /\ acc'[c] = <<>>
           /\ UNCHANGED <<OclState, npu_lock>>
    /\ \A c \in CPUS :
           opc[c] # "idle" /\ opc'[c] = "idle" => orc'[c] \notin CallerFault
    /\ spa_rc' # spa_rc /\ spa_rc' \in CallerFault => UNCHANGED <<OclState, npu_lock>>

\* C11: every return of InvalidParameter or Unsupported from SPA_SETUP,
\* SPA_CLEAR_CACHE, TL_SET and SET_PE happens without side effect: no register
\* is written, the BDF-to-PE cache is unchanged, and the NPU lock is neither
\* taken nor left held by the caller
C11_FaultNoSideEffect ==
    /\ [][FaultStep]_vars
    /\ [](\A c \in CPUS : opc[c] = "idle" => c \notin npu_lock)

\* a SET_PE with unsupported compare keys, a call with an invalid parameter
\* and a SPA_SETUP with an invalid parameter have returned, after a call that
\* wrote the registers
C11_Witness ==
    /\ \E c \in CPUS : orc[c] = "OPAL_UNSUPPORTED"
    /\ \E c \in CPUS : orc[c] = "OPAL_PARAMETER"
    /\ spa_rc = "OPAL_PARAMETER"
    /\ spap[SpapReg(2)].page = 1
    /\ ncalls = MaxOpalCalls

\* the positions of an OPAL call between a read of a register and the write
\* that follows it, and at a write
InRegisterAccess == {"cc_write", "cc_poll", "tl_write", "pe_write"}

\* C12: every register read and write of SPA setup, SPA cache invalidation,
\* TL template/rate set and PE map is made while the calling CPU holds the
\* lock of the NPU, so two CPUs are never both between the read and the
\* write of their read-modify-write sequences on the bricks of the NPU
C12_AccessUnderLock ==
    /\ \A c \in CPUS : \A k \in 1 .. Len(acc[c]) : acc[c][k].held
    /\ \A c, d \in CPUS :
           c # d => ~(opc[c] \in InRegisterAccess /\ opc[d] \in InRegisterAccess)

\* bit 16 of a value read from XSL_PSL_LLCMD_A0
InFlight(val) == 16 \in val

\* the command word of a PE handle on a brick: the handle in the low fifteen
\* bits, bit 15, and bit 48 exactly on the bricks of block OTL1
IsCommandWord(val, index, PE_handle) ==
    /\ \A k \in 0 .. 14 : (63 - k \in val) <=> ((PE_handle \div 2^k) % 2 = 1)
    /\ 15 \in val
    /\ (48 \in val) <=> (index \in {3, 5})
    /\ val \subseteq (49 .. 63) \cup {15, 48}

\* C13, the accesses and the result of a SPA_CLEAR_CACHE that has passed the
\* validation and is about to return, or has returned
ClearCacheOutcome(c) ==
    LET a == acc[c]
        reads == Len(a) - 2
    IN
    /\ Len(a) >= 1 /\ a[1].kind = "read"
    /\ \A k \in 1 .. Len(a) : a[k].reg = <<"STCK_1", "XSL_PSL_LLCMD_A0">>
    /\ IF InFlight(a[1].val)
       THEN orc[c] = "OPAL_BUSY" /\ Len(a) = 1
       ELSE /\ Len(a) >= 3
            /\ a[2].kind = "write" /\ IsCommandWord(a[2].val, oarg[c].index, oarg[c].arg)
            /\ reads <= 5
            /\ \A k \in 3 .. Len(a) : a[k].kind = "read"
            /\ \A k \in 3 .. Len(a) - 1 : InFlight(a[k].val)
            /\ IF InFlight(a[Len(a)].val)
               THEN reads = 5 /\ orc[c] = "OPAL_HARDWARE"
               ELSE orc[c] = "OPAL_SUCCESS"

\* C13: SPA_CLEAR_CACHE with a valid PE handle returns Busy without writing
\* if bit 16 of XSL_PSL_LLCMD_A0 is set on entry; otherwise it writes exactly
\* one command word PE_handle | bit15 (bit48 added iff the block is OTL1),
\* then reads the register at most 5 times and returns Success at the first
\* read that shows bit 16 clear, or HardwareError when all 5 reads show it
\* set.  The call always terminates
C13_ClearCache ==
    /\ [](\A c \in CPUS :
             /\ oarg[c].api = "clear_cache" /\ opc[c] \in {"cc_out", "idle"}
             /\ orc[c] \notin CallerFault
             => ClearCacheOutcome(c))
    /\ \A c \in CPUS : (opc[c] = "cc_lock") ~> (opc[c] = "idle")

\* a call on brick 3 has returned HardwareError after five reads that showed
\* bit 16 set, and the next call has returned Busy
C13_Witness ==
    \E c, d \in CPUS :
        /\ oarg[c].api = "clear_cache" /\ oarg[c].index = 3
        /\ opc[c] = "idle" /\ orc[c] = "OPAL_HARDWARE" /\ Len(acc[c]) = 7
        /\ \A k \in 3 .. 7 : InFlight(acc[c][k].val)
        /\ oarg[d].api = "clear_cache"
        /\ opc[d] = "idle" /\ orc[d] = "OPAL_BUSY" /\ Len(acc[d]) = 1

\* C14: after any sequence of successful TL_SET calls on a brick, for each
\* template i in {1, 2, 3} the bit OTL_CONFIG1.TX_TEMP{i}_EN is 1 if and only
\* if bit i of the capabilities of the most recent call is set: a template
\* enabled by an earlier call is disabled again when a later call omits it
C14_EnablesFollowCapabilities ==
    opc[0] = "idle" /\ oarg[0].api = "tl_set" =>
        LET reg == otl_config1[oarg[0].index]
            capabilities == oarg[0].arg.capabilities
        IN  /\ (NPU2_OTL_CONFIG1_TX_TEMP1_EN \subseteq reg) <=> ((capabilities \div 2) % 2 = 1)
            /\ (NPU2_OTL_CONFIG1_TX_TEMP2_EN \subseteq reg) <=> ((capabilities \div 4) % 2 = 1)
            /\ (NPU2_OTL_CONFIG1_TX_TEMP3_EN \subseteq reg) <=> ((capabilities \div 8) % 2 = 1)

\* the 4-bit field of a register value whose first bit is the bit pos
Field4(reg, pos) ==
    (IF pos \in reg THEN 8 ELSE 0) + (IF pos + 1 \in reg THEN 4 ELSE 0)
        + (IF pos + 2 \in reg THEN 2 ELSE 0) + (IF pos + 3 \in reg THEN 1 ELSE 0)

\* the nibble of a template in the rate buffer: template 0 the low nibble of
\* byte 31, template 1 its high nibble, template 2 the low nibble of byte 30,
\* template 3 its high nibble
Nibble(buf, templ) ==
    LET byte == IF templ \in {0, 1} THEN buf[32] ELSE buf[31]
    IN  IF templ \in {0, 2} THEN byte % 16 ELSE (byte \div 16) % 16

\* C15, the step that writes OTL_CONFIG1
RateStep ==
    \A c \in CPUS :
        opc[c] = "tl_write" /\ opc'[c] = "idle" =>
            LET old == otl_config1[oarg[c].index]
                new == otl_config1'[oarg[c].index]
            IN  /\ orc'[c] = "OPAL_SUCCESS"
                /\ \A i \in 0 .. 3 : Field4(new, 8 + 4 * i) = Nibble(oarg[c].arg.rate, i)
                /\ \A b \in (0 .. 63) \ ({1, 2, 3} \cup (8 .. 23)) : b \in new <=> b \in old

\* C15: after a successful TL_SET, for every content of the rate buffer and
\* each template i in 0..3, the 4-bit field of OTL_CONFIG1 at the bits 8+4i ..
\* 8+4i+3 equals the nibble of template i in the buffer, independent of the
\* other nibble of the same byte; all bits of OTL_CONFIG1 outside the enable
\* bits of the templates 1..3 and these four fields keep their values
C15_RateFields == [][RateStep]_vars

\* a TL_SET with the bytes 0x1F and 0xA5 at the end of the buffer has
\* returned Success: the rate fields are 5, A, F and 1
C15_Witness ==
    /\ opc[0] = "idle" /\ orc[0] = "OPAL_SUCCESS" /\ oarg[0].api = "tl_set"
    /\ oarg[0].arg.rate[31] = 31 /\ oarg[0].arg.rate[32] = 165
    /\ Field4(otl_config1[oarg[0].index], 8) = 5
    /\ Field4(otl_config1[oarg[0].index], 12) = 10
    /\ Field4(otl_config1[oarg[0].index], 16) = 15
    /\ Field4(otl_config1[oarg[0].index], 20) = 1

\* C16, the states: never more than 5 attempts; when the loop is left after
\* a failed attempt, 5 attempts have been made, and the bring-up of the brick
\* then ends with status = "error", no PHB and no transmission
TrainingOutcome ==
    /\ attempts <= 5
    /\ bpc = "after_train" /\ train_rc = "OPAL_HARDWARE" => attempts = 5
    /\ bpc = "done" /\ train_rc = "OPAL_HARDWARE" =>
           /\ attempts = 5
           /\ dt_status = "error"
           /\ ~phb_registered
           /\ ~tx_enabled

\* C16, the steps: an attempt is made only as the first one or after a failed
\* one, so that no attempt follows the attempt that succeeds
TrainingStep ==
    /\ attempts' # attempts =>
           /\ attempts' = attempts + 1
           /\ attempts = 0 \/ train_rc = "OPAL_HARDWARE"
    /\ train_rc = "OPAL_SUCCESS" => attempts' = attempts /\ train_rc' = train_rc

\* C16: in default training mode, if the ODL status never reaches the training
\* state 0x7, the whole training sequence is invoked exactly 5 times for the
\* brick, then the device-tree node gets status = "error", no PHB is registered
\* and transmission is not enabled; if the attempt k <= 5 succeeds, exactly k
\* attempts are made
C16_TrainingRetries == []TrainingOutcome /\ [][TrainingStep]_vars

\* five attempts have failed and the brick is abandoned
C16_Witness ==
    /\ training_state = "NPU2_TRAIN_DEFAULT"
    /\ bpc = "done" /\ train_rc = "OPAL_HARDWARE" /\ attempts = 5
    /\ dt_status = "error"

\* C17: if any of the three I2C byte writes of the reset of the device
\* returns an error, the current training attempt is aborted: the remaining
\* bytes are not sent and no later step of the attempt (transmit pattern A,
\* lane bump, start training, status poll) is performed
C17_I2cErrorAborts ==
    i2c_failed =>
        \A k \in 1 .. Len(odl_steps) : odl_steps[k] \in {"reset_odl", "i2c_write"}

\* the fence accesses of brick_config() made so far
BrickFenceLog == IF fence_k <= 3 /\ bpc # "brick_config" THEN fence_log ELSE <<>>

\* the values of the writes of a log, in order
RECURSIVE WritesOf(_)
WritesOf(log) ==
    IF log = <<>> THEN <<>>
    ELSE IF log[1].kind = "write" THEN <<log[1].val>> \o WritesOf(Tail(log))
    ELSE WritesOf(Tail(log))

\* C18: during brick_config of a brick, the values written to
\* FENCE_CONTROL_n are exactly [01, 11, 10] in this order, and each of these
\* writes is followed by at least one read of CQ_CTL_STATUS that observes the
\* value just written before the next fence write is issued: a fence write is
\* never issued while the previous transition is unconfirmed
C18_FenceSequence ==
    LET log == BrickFenceLog
        w == WritesOf(log)
    IN
    /\ Len(w) <= 3 /\ w = SubSeq(<<1, 3, 2>>, 1, Len(w))
    /\ \A j \in 2 .. Len(log) :
           log[j].kind = "write" =>
               log[j - 1].kind = "read" /\ log[j - 1].val = w[log[j].k - 1]
    /\ bpc \in {"setup_irq", "setup_device"} =>
           /\ w = <<1, 3, 2>>
           /\ log[Len(log)].kind = "read" /\ log[Len(log)].val = 2

\* the row of the table of the index mappings for a brick
MappingRow(i) ==
    IF i = 2 THEN <<"STCK_1", "STCK_1U", "OTL0", "OB0_ODL0_STATUS", "OB0_ODL0_CONFIG",
                   "OBUS_LL0_IOOL_PHY_CONFIG">>
    ELSE IF i = 3 THEN <<"STCK_1", "STCK_1U", "OTL1", "OB0_ODL1_STATUS", "OB0_ODL1_CONFIG",
                        "OBUS_LL0_IOOL_PHY_CONFIG">>
    ELSE IF i = 4 THEN <<"STCK_2", "STCK_2U", "OTL0", "OB3_ODL1_STATUS", "OB3_ODL1_CONFIG",
                        "OBUS_LL3_IOOL_PHY_CONFIG">>
    ELSE IF i = 5 THEN <<"STCK_2", "STCK_2U", "OTL1", "OB3_ODL0_STATUS", "OB3_ODL0_CONFIG",
                        "OBUS_LL3_IOOL_PHY_CONFIG">>
    ELSE <<"assert", "assert", "assert", "assert", "assert", "assert">>

\* what the mappings give for an index
Mapped(i) ==
    <<index_to_stack(i), index_to_stacku(i), index_to_block(i), get_odl_status(i),
      odl_config(i), phy_config(i)>>

MappingNames == <<"stack", "stacku", "block", "odl_status", "odl_config", "phy_config">>

\* C19: for every brick index i in {2,3,4,5} the index mappings return the
\* row of the table: stack STCK_1 for 2,3 and STCK_2 for 4,5; upper stack
\* STCK_1U / STCK_2U likewise; block OTL0 for 2,4 and OTL1 for 3,5; ODL
\* status/config register OB0_ODL0, OB0_ODL1, OB3_ODL1, OB3_ODL0 for 2,3,4,5;
\* OBUS PHY config LL0 for 2,3 and LL3 for 4,5.  Every other index is rejected
\* by the assertion of each mapping and never mapped to a register: the
\* bring-up of such a link stops at its first mapping
C19_IndexMappings ==
    /\ \A i \in 0 .. 7 : Mapped(i) = MappingRow(i)
    /\ \A u \in used_regs :
           \E n \in 1 .. 6 : u = <<MappingNames[n], MappingRow(dev_index)[n]>>
    /\ dev_index \notin 2 .. 5 => used_regs = {} /\ bpc \in {"brick_config", "abort"}
    /\ dev_index \in 2 .. 5 => bpc # "abort" /\ <<"stack", "assert">> \notin used_regs

\* the link of index 4 is up: its ODL registers are those of ODL1 of OBUS 3
C19_Witness ==
    /\ dev_index = 4 /\ bpc = "done" /\ phb_registered
    /\ Use("odl_status", "OB3_ODL1_STATUS") \subseteq used_regs
    /\ Use("odl_config", "OB3_ODL1_CONFIG") \subseteq used_regs
    /\ Use("stacku", "STCK_2U") \subseteq used_regs
    /\ Use("block", "OTL0") \subseteq used_regs
    /\ Use("phy_config", "OBUS_LL3_IOOL_PHY_CONFIG") \subseteq used_regs

\* C20: once setup_irq has succeeded, the translation-fault IRQ published for
\* the brick i equals irq_base + 23 + (2 if the upper stack is STCK_2U) + (1
\* if the block is OTL1), that is irq_base + 23, 24, 25, 26 for i = 2, 3, 4,
\* 5; the four numbers are pairwise distinct and all lie inside the allocated
\* range [irq_base, irq_base + 35)
C20_XslIrq ==
    /\ xsl_irq # NoIrq =>
           /\ dev_index \in 2 .. 5
           /\ xsl_irq = irq_base + 23 + (IF dev_index \in {4, 5} THEN 2 ELSE 0)
                             + (IF dev_index \in {3, 5} THEN 1 ELSE 0)
           /\ xsl_irq = irq_base + 21 + dev_index
           /\ irq_base <= xsl_irq /\ xsl_irq < irq_base + 35
    /\ \A base \in IrqBases : \A i, j \in 2 .. 5 :
           i # j => XslIrq(base, index_to_stacku(i), index_to_block(i))
                        # XslIrq(base, index_to_stacku(j), index_to_block(j))
    /\ bpc = "probe_failed" => xsl_irq = NoIrq

\* the IRQ of the brick 5 is published with the base 64
C20_Witness == bpc = "done" /\ dev_index = 5 /\ irq_base = 64 /\ xsl_irq = 90

\* byte k of a 32-bit datum, byte 0 the least significant
ByteOf(v, k) == IF k < 2 THEN (v.lo \div 256^k) % 256 ELSE (v.hi \div 256^(k - 2)) % 256

\* what a read of the size at byte k of a register that holds v returns
PartOf(v, k, size) ==
    IF size = 1 THEN [hi |-> 0, lo |-> ByteOf(v, k)]
    ELSE IF size = 2 THEN [hi |-> 0, lo |-> IF k = 0 THEN v.lo ELSE v.hi]
    ELSE v

\* C21: after cfg_write32(o, v) on a brick, and until the next write to that
\* brick, each read that succeeds at o + k returns its part of v, the least
\* significant byte at o: cfg_read8(o + k) byte k, cfg_read16(o) and
\* cfg_read16(o + 2) the low and the high half, cfg_read32(o) v itself; this
\* holds for the brick on OTL0 and for the one on OTL1
C21_ConfigRoundTrip ==
    \A index \in Bricks :
        LET w32 == cfg_w32[GenidWindow(index)]
            k == cfg_last.offset - w32.offset
        IN  (/\ cfg_last.op = "read"
             /\ cfg_last.index = index
             /\ cfg_last.rc = "OPAL_SUCCESS"
             /\ w32 # NoWrite
             /\ k \in 0 .. 3)
            => cfg_last.data = PartOf(w32.data, k, cfg_last.size)

\* 0xDEADBEEF was written at 0x10 of the brick on OTL1 and, after another
\* call, the byte at 0x13 is read as 0xDE
C21_Witness ==
    /\ cfg_calls = 3
    /\ cfg_w32[256] = [offset |-> 16, data |-> [hi |-> 57005, lo |-> 48879]]
    /\ cfg_last.op = "read" /\ cfg_last.index = 3 /\ cfg_last.rc = "OPAL_SUCCESS"
    /\ cfg_last.offset = 19 /\ cfg_last.size = 1
    /\ cfg_last.data = [hi |-> 0, lo |-> 222]

\* the value the SET_PE call of a CPU asks for: the PE and the BDF of its
\* arguments, enabled
AskedMapping(c) == [ENABLE |-> 1, PE |-> oarg[c].arg.pe_num, BDF |-> oarg[c].arg.bdfn]

\* C22 as the specification states it: when a SET_PE call that passed
\* validation has returned, the BDF2PE_MAP0 register of its brick holds
\* ENABLE, PE = pe_num and BDF = the bdfn argument; and between calls the
\* cache entry of every brick equals the value of its map register
C22_BdfOfCaller ==
    (opc[0] = "idle" /\ oarg[0].api = "set_pe")
    => /\ orc[0] = "OPAL_SUCCESS" => bdf2pe_map[oarg[0].index] = AskedMapping(0)
       /\ \A i \in Bricks : bdf2pe_cache[i] = bdf2pe_map[i]

\* C22: when a SET_PE call that passed validation has returned, the
\* BDF2PE_MAP0 register of its brick holds ENABLE, PE = pe_num and BDF = 0,
\* the BDFN of the device of the brick, whatever the bdfn argument; and
\* between calls the cache entry of every brick equals the value of its map
\* register
C22_SetPeMapping ==
    (opc[0] = "idle" /\ oarg[0].api = "set_pe")
    => /\ orc[0] = "OPAL_SUCCESS"
          => bdf2pe_map[oarg[0].index] = [AskedMapping(0) EXCEPT !.BDF = 0]
       /\ \A i \in Bricks : bdf2pe_cache[i] = bdf2pe_map[i]

\* both bricks have been mapped, the second one by a call with bdfn = 8
C22_Witness ==
    /\ opc[0] = "idle" /\ orc[0] = "OPAL_SUCCESS"
    /\ oarg[0] = [api |-> "set_pe", index |-> 3, arg |-> [pe_num |-> 15, bdfn |-> 8]]
    /\ bdf2pe_map[3] = [ENABLE |-> 1, PE |-> 15, BDF |-> 0]
    /\ bdf2pe_map[2].ENABLE = 1 /\ bdf2pe_map[2].PE = 3

\* c takes a step of a lock(l) that it called, with bust_locks off, on a lock
\* it owned: the call, or the step after the first read of lock_check
OwnedLockStep(c) ==
    \/ pc[c] = "idle" /\ op'[c].api = "lock" /\ op'[c].mine /\ ~bust_locks
    \/ /\ pc[c] = "lock_check2" /\ pc'[c] # pc[c]
       /\ op[c].api = "lock" /\ op[c].mine

\* the lock(l) of c is caught by the pre-check, or not yet through it; the
\* cell of l is left as it is
CaughtRecursive(c) ==
    /\ \/ /\ pc'[c] = "aborted" /\ bust_locks'
          /\ lock_err'[c] = "Invalid recursive lock"
       \/ /\ pc'[c] = "lock_check2"
          /\ UNCHANGED bust_locks
    /\ UNCHANGED <<lock_val, locks_held>>

\* C23 as the specification states it, for the calls made with bust_locks
\* off: lock(l) by a CPU that owns l never reaches the try_lock or the spin
\* loop and never returns; the pre-check sets bust_locks and aborts with
\* "Invalid recursive lock", the cell unchanged
C23_AlwaysCaught ==
    [][\A c \in CPUS : OwnedLockStep(c) => CaughtRecursive(c)]_vars

\* C23: in a build with DEBUG_LOCKS and with bust_locks off at the call,
\* lock(l) by a CPU that owns l never reaches the try_lock or the spin loop
\* and never returns; lock_check sets bust_locks and aborts with "Invalid
\* recursive lock", and the cell of l keeps the caller as its owner
C23_CaughtInDebug ==
    /\ [][\A c \in CPUS : DEBUG_LOCKS /\ OwnedLockStep(c) => CaughtRecursive(c)]_vars
    /\ [](\A c \in CPUS :
            (/\ DEBUG_LOCKS /\ op[c].api = "lock" /\ op[c].mine
             /\ pc[c] \in {"lock_check2", "aborted"})
            => lock_val[op[c].l] = HeldVal(c))

\* a CPU has died in lock() of a lock that it holds
C23_Witness ==
    \E c \in CPUS :
        /\ pc[c] = "aborted" /\ op[c].api = "lock" /\ op[c].mine
        /\ lock_err[c] = "Invalid recursive lock"
        /\ Owns(c, op[c].l) /\ InList(locks_held[c], op[c].l)

\* the number of the locks of the console path that c holds
ConHeld(c) == Cardinality({l \in AllLocks : in_con_path[l] /\ Owns(c, l)})

\* c acquires l in this step: its compare-and-swap of the cell succeeds
AcquireStep(c, l) == lock_val[l] = LOCK_UNLOCKED /\ lock_val'[l] = HeldVal(c)

\* c runs the release of an unlock(l) in this step: the statements of
\* unlock() after unlock_check()
ReleaseStep(c, l) ==
    /\ cur'[c] = l
    /\ \/ pc[c] = "unlock_release" /\ pc'[c] # pc[c]
       \/ /\ ~DEBUG_LOCKS /\ ~bust_locks
          /\ \/ pc[c] = "idle" /\ op'[c].api = "unlock"
             \/ /\ pc[c] = "drop_loop" /\ locks_held[c] # <<>>
                /\ l = Head(locks_held[c]) /\ locks_held'[c] = Tail(locks_held[c])

\* con_suspend of c goes up by one with each acquisition of a lock of the
\* console path and down by one with each release of one, and changes at no
\* other step; flush_console() is called by the releases that bring it to 0
\* with con_need_flush set, and by no other step
ConAccounting(c) ==
    LET acquired == \E l \in AllLocks : in_con_path[l] /\ AcquireStep(c, l)
        released == \E l \in AllLocks : in_con_path[l] /\ ReleaseStep(c, l)
    IN  /\ con_suspend'[c] = con_suspend[c] + (IF acquired THEN 1 ELSE 0)
                                            - (IF released THEN 1 ELSE 0)
        /\ released => (flushed'[c] <=> (con_suspend'[c] = 0 /\ con_need_flush[c]))
        /\ ~released => (flushed'[c] => flushed[c])

\* c takes a step of an unlock() that it called, with bust_locks off, on a
\* lock of the console path while its con_suspend is 0
ConUnlockStep(c) ==
    \/ /\ pc[c] = "idle" /\ op'[c].api = "unlock" /\ ~bust_locks
       /\ in_con_path[op'[c].l] /\ con_suspend[c] = 0
    \/ /\ pc[c] = "unlock_check2" /\ pc'[c] # pc[c] /\ ctx[c] = "api"
       /\ in_con_path[cur[c]] /\ con_suspend[c] = 0

BrickConfigOver ==
    /\ bpc \notin {"brick_config", "abort", "set_npcq_config"}
    /\ bpc \in {"fence_write", "fence_read"} => fence_k > 3

\* the registers of the writes of a step in a log, in order
RegsOfStep(log, s) ==
    LET w == SelectSeq(log, LAMBDA e : e.step = s) IN [k \in 1 .. Len(w) |-> w[k].reg]

\* the registers that the step s of brick_config writes for the brick i, in
\* order, as the specification lists them
StepRegs(s, i) ==
    LET stack == MappingRow(i)[1]
        phy == MappingRow(i)[6]
        sm(name) == [k \in 1 .. 4 |-> <<stack, SmBlocks[k], name>>]
    IN  CASE s = 1 -> <<<<phy>>>>
          [] s = 2 -> <<<<"NPU2_MISC_OPTICAL_IO_CFG0">>, <<"PU_IOE_PB_MISC_CFG">>>>
          [] s = 3 -> <<<<phy>>>>
          [] s = 4 -> <<<<"PU_IOE_PB_FP01_CFG">>, <<"PU_IOE_PB_FP23_CFG">>,
                        <<"PU_IOE_PB_FP45_CFG">>, <<"PU_IOE_PB_FP67_CFG">>>>
          [] s = 5 -> <<<<stack, "XSL", "NPU2_XSL_WRAP_CFG">>>>
          [] s = 7 -> <<<<"NPU2_XTS_CFG">>, <<"NPU2_XTS_CFG2">>>>
          [] s = 8 -> sm("NPU2_LOW_WATER_MARKS")
          [] s = 9 -> sm("NPU2_CQ_SM_MISC_CFG0")

\* C25: the register writes of brick_config(i) are those of its nine steps
\* in the order of the steps: no write of a later step precedes a write of
\* an earlier one, the writes of each step other than the NPCQ configuration
\* are on the registers listed for it, in order, and when brick_config has
\* returned every step has made all of its writes
C25_BrickConfigOrder ==
    /\ \A j \in 2 .. Len(scom_log) : scom_log[j - 1].step <= scom_log[j].step
    /\ \A s \in (1 .. 9) \ {6} :
           LET regs == RegsOfStep(scom_log, s)
               later == \E j \in 1 .. Len(scom_log) : scom_log[j].step > s
           IN  /\ Len(regs) <= Len(StepRegs(s, dev_index))
               /\ regs = SubSeq(StepRegs(s, dev_index), 1, Len(regs))
               /\ (later \/ BrickConfigOver) => regs = StepRegs(s, dev_index)
    /\ BrickConfigOver => RegsOfStep(scom_log, 6) # <<>>

\* brick_config() of the brick 4 has returned after its 29 register writes
C25_Witness ==
    /\ bpc = "setup_irq" /\ dev_index = 4
    /\ Len(scom_log) = 29
    /\ scom_log[1].reg = <<"OBUS_LL3_IOOL_PHY_CONFIG">>
    /\ scom_log[29] = ScomWrite(9, <<"STCK_2", "SM_3", "NPU2_CQ_SM_MISC_CFG0">>,
                                {"CONFIG_ENABLE_PBUS"})

\* the writes of the NPCQ configuration in a log, in order: the name of the
\* register, its block and the value
NpcqWrites(log) ==
    LET w == SelectSeq(log, LAMBDA e : e.step = 6)
    IN  [k \in 1 .. Len(w) |-> <<w[k].reg[3], w[k].reg[2], w[k].val>>]

\* the write of the fence control of the brick i
FenceWriteOf(i, status) ==
    <<IF MappingRow(i)[3] = "OTL0" THEN "NPU2_CQ_CTL_FENCE_CONTROL_0"
      ELSE "NPU2_CQ_CTL_FENCE_CONTROL_1", "CTL", {status}>>

\* the write of CQ_CTL.MISC_CFG of the brick i
CtlWriteOf(i) ==
    <<"NPU2_CQ_CTL_MISC_CFG", "CTL",
      {"CONFIG_OCAPI_MODE",
       IF MappingRow(i)[3] = "OTL0" THEN "CONFIG_OTL0_ENABLE" ELSE "CONFIG_OTL1_ENABLE"}>>

\* the writes of CQ_DAT.MISC_CFG and of CQ_SM.MISC_CFG0 on SM_0..SM_3
DatSmWrites ==
    <<<<"NPU2_CQ_DAT_MISC_CFG", "DAT", {"CONFIG_OCAPI_MODE"}>>,
      <<"NPU2_CQ_SM_MISC_CFG0", "SM_0", {"CONFIG_OCAPI_MODE"}>>,
      <<"NPU2_CQ_SM_MISC_CFG0", "SM_1", {"CONFIG_OCAPI_MODE"}>>,
      <<"NPU2_CQ_SM_MISC_CFG0", "SM_2", {"CONFIG_OCAPI_MODE"}>>,
      <<"NPU2_CQ_SM_MISC_CFG0", "SM_3", {"CONFIG_OCAPI_MODE"}>>>>

\* a sequence starts another one
IsPrefix(s, t) == Len(s) <= Len(t) /\ s = SubSeq(t, 1, Len(s))

\* the NPCQ configuration writes CQ_CTL.MISC_CFG only when the fence control
\* has been through 01, 11 and 10
NpcqCtlAfterFences(i) ==
    <<<<"NPU2_OTL_CONFIG0", MappingRow(i)[3], {"EN"}>>,
      FenceWriteOf(i, "0b01"), FenceWriteOf(i, "0b11"), FenceWriteOf(i, "0b10"),
      CtlWriteOf(i)>> \o DatSmWrites

\* the NPCQ configuration writes CQ_CTL.MISC_CFG between the fence controls
\* 01 and 11
NpcqCtlAfterFirstFence(i) ==
    <<<<"NPU2_OTL_CONFIG0", MappingRow(i)[3], {"EN"}>>,
      FenceWriteOf(i, "0b01"), CtlWriteOf(i),
      FenceWriteOf(i, "0b11"), FenceWriteOf(i, "0b10")>> \o DatSmWrites

\* C26 as stated: within the NPCQ configuration of a brick OTL_CONFIG0.EN is
\* written first, then the fence control 01, 11, 10, only then
\* CQ_CTL.MISC_CFG, then CQ_DAT.MISC_CFG, then CQ_SM.MISC_CFG0 on SM_0..SM_3
C26_CtlAfterFenceSequence ==
    IsPrefix(NpcqWrites(scom_log), NpcqCtlAfterFences(dev_index))

\* C26: within the NPCQ configuration of a brick the register writes are, in
\* order: OTL_CONFIG0.EN, the fence control 01, CQ_CTL.MISC_CFG with
\* CONFIG_OCAPI_MODE and the enable of the OTL, the fence control 11, the
\* fence control 10, CQ_DAT.MISC_CFG and CQ_SM.MISC_CFG0 on SM_0..SM_3; all
\* of them are made when brick_config has returned, and none is made while
\* a set_fence_control() polls: the fence control is then the last one
C26_CtlAfterFirstFence ==
    /\ IsPrefix(NpcqWrites(scom_log), NpcqCtlAfterFirstFence(dev_index))
    /\ BrickConfigOver => NpcqWrites(scom_log) = NpcqCtlAfterFirstFence(dev_index)
    /\ (bpc = "fence_read" /\ fence_k <= 3) =>
           Len(NpcqWrites(scom_log)) = <<2, 4, 5>>[fence_k]

\* the NPCQ configuration of the brick 3 (OTL1) has made its ten writes
C26_Witness ==
    /\ BrickConfigOver /\ dev_index = 3
    /\ Len(NpcqWrites(scom_log)) = 10
    /\ NpcqWrites(scom_log)[3] = CtlWriteOf(3)
    /\ NpcqWrites(scom_log)[4] = FenceWriteOf(3, "0b11")

\* the positions of the log where the set_fence_control() number k reads the
\* status, and those where it writes the fence control
FenceReadsOf(k) ==
    {j \in 1 .. Len(fence_log) : fence_log[j].kind = "read" /\ fence_log[j].k = k}

FenceWritesOf(k) ==
    {j \in 1 .. Len(fence_log) : fence_log[j].kind = "write" /\ fence_log[j].k = k}

\* the set_fence_control() number k is being made
InFenceControl(k) == bpc \in {"fence_write", "fence_read"} /\ fence_k = k

\* a set_fence_control() that has returned has written its status once, has
\* then read the status field of the block of the brick at least once, and
\* has returned OPAL_SUCCESS when a read gave the status written and
\* OPAL_HARDWARE when none did
FenceReturned ==
    \A r \in 1 .. Len(fence_rc) :
        LET k == fence_rc[r].k
            rc == fence_rc[r].rc
        IN  /\ Cardinality(FenceWritesOf(k)) = 1
            /\ \A j \in FenceWritesOf(k) : fence_log[j].val = <<1, 3, 2, 0>>[k]
            /\ FenceReadsOf(k) # {}
            /\ \A j \in FenceReadsOf(k) :
                   /\ \A w \in FenceWritesOf(k) : w < j
                   /\ fence_log[j].field = IF MappingRow(dev_index)[3] = "OTL0"
                                           THEN "BRK0_AM_FENCED" ELSE "BRK1_AM_FENCED"
            /\ rc \in {"OPAL_SUCCESS", "OPAL_HARDWARE"}
            /\ rc = "OPAL_SUCCESS" <=>
                   \E j \in FenceReadsOf(k) : fence_log[j].val = <<1, 3, 2, 0>>[k]

\* C27: set_fence_control(i, status) writes status into the fence control,
\* then polls; it always returns, after at least one read of the status; it
\* returns OPAL_SUCCESS iff a read gave BRK0_AM_FENCED (block OTL0) or
\* BRK1_AM_FENCED (block OTL1) equal to status, and OPAL_HARDWARE otherwise
C27_SetFenceControl ==
    /\ []FenceReturned
    /\ \A k \in 1 .. 4 :
           InFenceControl(k) ~> (\E r \in 1 .. Len(fence_rc) : fence_rc[r].k = k)

\* on the brick 3 (OTL1) the first set_fence_control() has returned
\* OPAL_SUCCESS and the second one OPAL_HARDWARE after its reads
C27_Witness ==
    /\ dev_index = 3
    /\ fence_rc = <<[k |-> 1, rc |-> "OPAL_SUCCESS"], [k |-> 2, rc |-> "OPAL_HARDWARE"]>>
    /\ Cardinality(FenceReadsOf(2)) = MaxFencePolls

\* a value of the ODL config register with the profile of the training
OdlProfile(reset, train_mode) ==
    [RESET |-> reset, VERSION |-> 1, TRAIN_MODE |-> train_mode, SUPPORTED_MODES |-> 2,
     X4_BACKOFF_ENABLE |-> 1, PHY_CNTR_LIMIT |-> 15, DEBUG_ENABLE |-> 1,
     FWD_PROGRESS_TIMER |-> 6]

\* the four writes of the ODL config register of a training attempt on the
\* brick i: reset, reset taken off, pattern A, start of the training
OdlConfigOrder(i) ==
    [k \in 1 .. 4 |->
        [op |-> "config", reg |-> MappingRow(i)[5],
         val |-> <<OdlProfile(1, 6), OdlProfile(0, 6), OdlProfile(0, 1), OdlProfile(0, 8)>>[k]]]

\* the number of writes of the ODL config register before the position j of
\* the log of the attempt
ConfigsBefore(j) == Cardinality({k \in 1 .. j - 1 : odl_log[k].op = "config"})

\* the accesses of an attempt are in order: the four config writes, the I2C
\* writes after the second one, the lane bump after the third, the reads of
\* the status after the fourth
OdlOrder ==
    LET w == SelectSeq(odl_log, LAMBDA e : e.op = "config") IN
    /\ IsPrefix(w, OdlConfigOrder(dev_index))
    /\ \A j \in 1 .. Len(odl_log) :
           /\ odl_log[j].op = "i2c" => ConfigsBefore(j) = 2
           /\ odl_log[j].op = "bump" => ConfigsBefore(j) = 3
           /\ odl_log[j].op = "status" => ConfigsBefore(j) = 4
    /\ Len(w) >= 3 => \E j \in 1 .. Len(odl_log) : odl_log[j].op = "i2c"
    /\ Len(w) = 4 => \E j \in 1 .. Len(odl_log) : odl_log[j].op = "bump"

\* an attempt begins with the write that resets the ODL, and it begins only
\* when the one before it has made its four writes and polled the status
OdlRetryRepeats ==
    attempts' # attempts =>
        /\ Len(odl_log') = 2 /\ odl_log'[1] = OdlConfigOrder(dev_index)[1]
        /\ attempts > 0 =>
               /\ Cardinality({j \in 1 .. Len(odl_log) : odl_log[j].op = "config"}) = 4
               /\ odl_log[Len(odl_log)].op = "status"

\* C28: in every training attempt the writes of the ODL config register
\* are, in order, RESET = 1 with TRAIN_MODE 0110 and the fixed profile,
\* RESET = 0 with the same profile, TRAIN_MODE 0001, TRAIN_MODE 1000; the
\* I2C reset of the device is between the second and the third, the lane
\* bump between the third and the fourth, no read of the ODL status is
\* before the fourth; every retry starts again from the RESET = 1 write
C28_OdlTrainOrder == []OdlOrder /\ [][OdlRetryRepeats]_vars

\* the second attempt on the brick 5 polls the status after its four config
\* writes, three I2C writes and the lane bump
C28_Witness ==
    /\ dev_index = 5 /\ attempts = 2 /\ bpc = "poll"
    /\ Len(odl_log) = 8
    /\ odl_log[7].op = "bump"
    /\ odl_log[8] = [op |-> "config", reg |-> "OB3_ODL0_CONFIG", val |-> OdlProfile(0, 8)]

\* the positions of a log of an attempt where the ODL status is read
StatusReads(log) == {j \in 1 .. Len(log) : log[j].op = "status"}

\* the poll makes no more reads than the deadline allows and none after a
\* read of the training state 0x7
PollBounded ==
    /\ Cardinality(StatusReads(odl_log)) <= OdlTimeout + 1
    /\ \A j \in StatusReads(odl_log) : odl_log[j].val = 7 => j = Len(odl_log)

\* what the poll returns: OPAL_SUCCESS on a read of 0x7, OPAL_HARDWARE when
\* all the reads that the deadline allows have been made and none gave 0x7
PollReturns ==
    (bpc = "poll" /\ bpc' # "poll") =>
        /\ train_rc' \in {"OPAL_SUCCESS", "OPAL_HARDWARE"}
        /\ train_rc' = "OPAL_SUCCESS" <=>
               odl_log'[Len(odl_log')] = [op |-> "status", val |-> 7]
        /\ train_rc' = "OPAL_HARDWARE" <=>
               /\ Cardinality(StatusReads(odl_log')) = OdlTimeout + 1
               /\ \A j \in StatusReads(odl_log') : odl_log'[j].val # 7

\* C29: the status poll of a training attempt always ends; it returns
\* OPAL_SUCCESS at the first read of TRAINING_STATE_MACHINE = 0x7, and
\* OPAL_HARDWARE when none of the reads of the deadline (one more than the
\* initial timeout: 3001 for 3000) gave 0x7; never OPAL_SUCCESS without a
\* read of 0x7
C29_PollTerminates ==
    /\ []PollBounded
    /\ [][PollReturns]_vars
    /\ (bpc = "poll") ~> (bpc # "poll")

\* the first attempt has returned OPAL_SUCCESS on the last read that the
\* deadline allows
C29_Witness ==
    /\ attempts = 1 /\ bpc = "after_train" /\ train_rc = "OPAL_SUCCESS"
    /\ Cardinality(StatusReads(odl_log)) = OdlTimeout + 1
    /\ odl_log[Len(odl_log)].val = 7

\* in the default training mode the transmission is enabled only after an
\* attempt that returned OPAL_SUCCESS, and npu2_opencapi_slot_create() is
\* called only when the transmission is enabled
TxAfterSuccess ==
    training_state = "NPU2_TRAIN_DEFAULT" =>
        /\ tx_enabled => train_rc = "OPAL_SUCCESS"
        /\ slot # "none" => tx_enabled

\* C30 as stated: in the default training mode TX_SEND_EN is written only
\* after a successful attempt, then the slot object is created, then the PHB
\* is registered: a registered PHB has its slot object
C30_SlotCreatedThenPhb ==
    /\ TxAfterSuccess
    /\ (training_state = "NPU2_TRAIN_DEFAULT" /\ phb_registered) => slot = "created"

\* C30: in the default training mode TX_SEND_EN is written only after a
\* training attempt returned OPAL_SUCCESS; after the first successful
\* attempt no other attempt is made; the transmission is enabled, then
\* npu2_opencapi_slot_create() is called, which gives the slot object or
\* NULL when the allocation fails, then the PHB is registered
C30_TxSlotPhb ==
    /\ []TxAfterSuccess
    /\ []((training_state = "NPU2_TRAIN_DEFAULT" /\ phb_registered) =>
             (slot \in {"created", "NULL"} /\ tx_enabled))
    /\ [][train_rc = "OPAL_SUCCESS" => attempts' = attempts]_vars
    /\ [][slot' # slot => (tx_enabled /\ ~phb_registered /\ ~phb_registered')]_vars

\* the third attempt has trained the link, the allocation of the slot has
\* failed and the PHB is registered
C30_Witness ==
    /\ training_state = "NPU2_TRAIN_DEFAULT" /\ attempts = 3
    /\ train_rc = "OPAL_SUCCESS" /\ tx_enabled
    /\ slot = "NULL" /\ phb_registered

\* C31: when the allocation of the interrupts fails, setup_irq() returns an
\* error with no interrupt register written and irq_base as it was, and the
\* probe gives the NPU up: the struct npu2 is freed, and for its brick no
\* BAR is programmed, no training is attempted and no PHB is registered
C31_IrqAllocationFails ==
    /\ bpc = "probe_failed" =>
           /\ irq_regs = <<>> /\ irq_base = 0
           /\ npu = "freed"
           /\ ~bars_set /\ attempts = 0 /\ odl_log = <<>> /\ ~phb_registered
    /\ (bars_set \/ attempts > 0 \/ phb_registered) =>
           (irq_regs = IrqRegs /\ npu = "allocated")

\* the allocation has failed after the brick_config() of the brick 5
C31_Witness ==
    /\ bpc = "probe_failed" /\ npu = "freed" /\ dev_index = 5
    /\ Len(scom_log) = 29 /\ irq_regs = <<>>

\* the datum of the size with all its bits set
AllOnes(size) ==
    IF size = 1 THEN [hi |-> 0, lo |-> 255]
    ELSE IF size = 2 THEN [hi |-> 0, lo |-> 65535]
    ELSE [hi |-> 65535, lo |-> 65535]

\* a config-space call is made
CfgCallStep == cfg_calls' = cfg_calls + 1

\* the call that a step makes is out of the config space or is not aligned
\* on its size
Misplaced(call) == call.offset > 4095 \/ call.offset % call.size # 0

\* C32: a config-space access with an offset above 0xFFF, or with an offset
\* that is not a multiple of its size, returns OPAL_PARAMETER with no write
\* of the CONFIG_ADDR cell and no access of the payload, and a read so
\* rejected gives all ones; every other access is accepted
C32_MisplacedRejected ==
    [][CfgCallStep =>
          IF Misplaced(cfg_last')
          THEN /\ cfg_last'.rc = "OPAL_PARAMETER"
               /\ cfg_last'.mmio = <<>>
               /\ config_addr' = config_addr /\ config_space' = config_space
               /\ cfg_last'.op = "read" => cfg_last'.data = AllOnes(cfg_last'.size)
          ELSE /\ cfg_last'.rc = "OPAL_SUCCESS"
               /\ cfg_last'.mmio # <<>>]_vars

\* a read of four bytes at 0xFFE, inside the config space and not aligned,
\* is rejected after a write has set the register
C32_Witness ==
    /\ cfg_last.op = "read" /\ cfg_last.offset = 4094 /\ cfg_last.size = 4
    /\ cfg_last.rc = "OPAL_PARAMETER"
    /\ cfg_last.data = [hi |-> 65535, lo |-> 65535]
    /\ config_space[0][4092] # <<0, 0, 0, 0>>

\* the address of the payload of an access, from the base of the window, as
\* the specification gives it: 128 + (o & (s - 1))
PayloadBySize(call) == 128 + (call.offset % call.size)

\* the address of the payload of an access, from the base of the window:
\* 128 + (o & 3) for a byte, 128 + (o & 2) for two bytes, 128 for four
PayloadByLane(call) ==
    128 + (IF call.size = 1 THEN call.offset % 4
           ELSE IF call.size = 2 THEN (call.offset % 4) - (call.offset % 2)
           ELSE 0)

\* the base of the GENID window of a brick, from the base of the BAR
WindowBase(i) == IF MappingRow(i)[3] = "OTL1" THEN 256 ELSE 0

\* the accesses of the last call, when it was accepted, are the write of the
\* CONFIG_ADDR cell at the base of the window and then the access of the
\* payload at the address that at gives
GenidOrder(at(_)) ==
    cfg_last.rc = "OPAL_SUCCESS" =>
        /\ Len(cfg_last.mmio) = 2
        /\ cfg_last.mmio[1] = [op |-> "out_be64", addr |-> WindowBase(cfg_last.index),
                                size |-> 8]
        /\ cfg_last.mmio[2].addr = WindowBase(cfg_last.index) + at(cfg_last)
        /\ cfg_last.mmio[2].size = cfg_last.size
        /\ cfg_last.mmio[2].op = IF cfg_last.op = "read" THEN "in_le" ELSE "out_le"
        /\ config_addr[WindowBase(cfg_last.index)].REG
               = cfg_last.offset - (cfg_last.offset % 4)

\* C33 as stated: an accepted access of size s at offset o writes the
\* CONFIG_ADDR cell at the base of the window (256 further for OTL1), then
\* accesses the payload at the base of the window + 128 + (o & (s - 1))
C33_PayloadBySize == GenidOrder(PayloadBySize)

\* C33: an accepted access of size s at offset o writes the CONFIG_ADDR cell
\* at the base of the window (256 further for OTL1), then accesses the
\* payload at the base of the window + 128 + (o & 3) for s = 1, + 128 +
\* (o & 2) for s = 2 and + 128 for s = 4
C33_PayloadByLane == GenidOrder(PayloadByLane)

\* two bytes are written at 0x12 of the brick on OTL1: the payload is at
\* 256 + 128 + 2
C33_Witness ==
    /\ cfg_last.op = "write" /\ cfg_last.index = 3 /\ cfg_last.rc = "OPAL_SUCCESS"
    /\ cfg_last.offset = 18 /\ cfg_last.size = 2
    /\ cfg_last.mmio[2].addr = 386

\* c is inside lock() or lock_recursive(), past the try_lock of dl_lock in
\* add_lock_request() and before the return of lock_caller()
InLockRequested(c) ==
    /\ op[c].api \in {"lock", "lock_recursive"}
    /\ \/ pc[c] \in {"walk_cell", "walk_owner", "walk_req", "alr_unlock", "spin_try",
                      "spin_wait", "lock_remove", "aborted"}
       \/ pc[c] \in {"unlock_check2", "unlock_release"} /\ ctx[c] = "dl"

\* c is in check_deadlock() or in the unlock(&dl_lock) that follows it
InDeadlockCheck(c) ==
    \/ pc[c] \in {"walk_cell", "walk_owner", "walk_req", "alr_unlock"}
    \/ pc[c] \in {"unlock_check2", "unlock_release"} /\ ctx[c] = "dl"

\* a step sets the requested_lock of c
SetsRequest(c) == requested_lock'[c] # NULL /\ requested_lock'[c] # requested_lock[c]

\* the requested_lock of a CPU is set only inside lock(), and names the lock
\* of the call
RequestOnlyInLock ==
    \A c \in CPUS : requested_lock[c] # NULL =>
        (InLockRequested(c) /\ requested_lock[c] = op[c].l)

\* the call has returned, or no call is made: requested_lock is NULL
RequestNullOnReturn ==
    \A c \in CPUS : pc[c] \in {"done", "idle"} => requested_lock[c] = NULL

\* c holds dl_lock only in the deadlock check
DlLockOnlyInCheck ==
    \A c \in CPUS : Owns(c, dl_lock) => InDeadlockCheck(c)

\* requested_lock is set by the step of add_lock_request() that takes
\* dl_lock, and add_lock_request() is entered from the fast try_lock when it
\* has failed
RequestSetUnderDlLock ==
    \A c \in CPUS :
        /\ SetsRequest(c) =>
               /\ pc[c] = "alr_try" /\ pc'[c] = "walk_cell"
               /\ requested_lock'[c] = op[c].l
               /\ lock_val'[dl_lock] = HeldVal(c)
        /\ (pc'[c] = "alr_try" /\ pc[c] # "alr_try") =>
               \/ pc[c] = "lock_fast" /\ lock_val[op[c].l] # LOCK_UNLOCKED
               \/ pc[c] = "alr_spin"

\* C34 as stated: requested_lock is non-null only inside lock(), where it is
\* set under dl_lock after the fast try_lock has failed, names the lock of the
\* call and is null when lock() returns, and dl_lock is not held by the CPU
\* once the deadlock check is over
C34_RequestedLockAlways ==
    /\ [](RequestOnlyInLock /\ RequestNullOnReturn /\ DlLockOnlyInCheck)
    /\ [][RequestSetUnderDlLock]_vars

\* C34: while bust_locks is off, requested_lock is non-null only inside
\* lock(), where it is set under dl_lock after the fast try_lock has failed,
\* names the lock of the call and is null when lock() returns; try_lock,
\* unlock and lock_recursive on a lock the CPU owns never set it, and dl_lock
\* is not held by the CPU once the deadlock check is over
C34_RequestedLock ==
    /\ [](~bust_locks =>
             (RequestOnlyInLock /\ RequestNullOnReturn /\ DlLockOnlyInCheck))
    /\ [][~bust_locks => RequestSetUnderDlLock]_vars

\* the CPU 0 waits for the lock 1 that the CPU 1 holds: its request is
\* registered, the deadlock check is over and dl_lock is free
C34_Witness ==
    /\ ~bust_locks /\ pc[0] = "spin_wait" /\ requested_lock[0] = 1
    /\ Owns(1, 1) /\ lock_val[dl_lock] = LOCK_UNLOCKED
    /\ pc[1] = "done" /\ op[1].api = "lock_recursive" /\ op[1].mine

\* the positions of SPA_CLEAR_CACHE between its lock() and its unlock()
NpuLockHeldAt == {"cc_read", "cc_write", "cc_poll", "cc_out"}

\* what a call that has taken the NPU lock returns
LockedReturns == {"OPAL_SUCCESS", "OPAL_BUSY", "OPAL_HARDWARE"}

\* a step in which the SPA_CLEAR_CACHE of c returns
ClearCacheReturns(c) == opc[c] \in NpuLockHeldAt /\ opc'[c] = "idle"

\* a step in which a SPA_SETUP is made and returns
SpaSetupReturns == spa_trail' # spa_trail

\* the calls return with the NPU lock released, as it was before the call
ReleasedOnReturn ==
    /\ \A c \in CPUS : ClearCacheReturns(c) =>
           /\ orc'[c] \in LockedReturns
           /\ c \in npu_lock /\ c \notin npu_lock'
    /\ SpaSetupReturns =>
           /\ spa_rc' \in LockedReturns
           /\ npu_lock' = npu_lock

BlockedOn(c, l) ==
    /\ requested_lock[c] = l /\ op[c].l = l
    /\ op[c].api \in {"lock", "lock_recursive"}
    /\ pc[c] \in {"walk_cell", "walk_owner", "walk_req", "alr_unlock", "unlock_check2",
                  "unlock_release", "spin_try", "spin_wait"}
    /\ ~Owns(c, l)

\* the lock l starts a chain of at most n + 1 locks that ends at the CPU
\* start: l is owned by start, or by a CPU that is blocked on a lock from
\* which such a chain goes on
RECURSIVE WaitChain(_, _, _)
WaitChain(start, l, n) ==
    \E o \in CPUS :
        /\ Owns(o, l)
        /\ \/ o = start
           \/ /\ n > 0 /\ requested_lock[o] # NULL
              /\ BlockedOn(o, requested_lock[o])
              /\ WaitChain(start, requested_lock[o], n - 1)

\* a step in which the check of c reports a deadlock
ReportsDeadlock(c) ==
    lock_err[c] # "Deadlock detected" /\ lock_err'[c] = "Deadlock detected"

\* C36: lock() aborts with 'Deadlock detected' only when, at the moment of
\* the check, the lock it requests starts a chain of locks, each owned by a
\* CPU that is blocked inside lock() on the next one, that ends at a lock the
\* caller owns
C36_NoFalseDeadlock ==
    [][\A c \in CPUS : ReportsDeadlock(c) =>
           (BlockedOn(c, op[c].l) /\ WaitChain(c, op[c].l, NumCpus))]_vars

\* the fields of OTL_CONFIG0 other than PE_MASK
Config0Rest(reg) == [reg EXCEPT !.PE_MASK = 0]

\* a step in which a SPA_SETUP returns OPAL_SUCCESS
SpaSetupSucceeds == SpaSetupReturns /\ spa_rc' = "OPAL_SUCCESS"

\* a successful SPA_SETUP sets the PE_MASK of its brick to its argument, and
\* no other step changes a PE_MASK
PeMaskFromArgument ==
    LET last == spa_trail'[Len(spa_trail')] IN
    IF SpaSetupSucceeds
    THEN /\ otl_config0'[last.index].PE_MASK = last.mask
         /\ \A i \in Bricks \ {last.index} : otl_config0'[i] = otl_config0[i]
    ELSE otl_config0' = otl_config0

\* C37: a successful SPA_SETUP changes in OTL_CONFIG0 of its brick only the
\* PE_MASK field, which is then the PE_mask argument; the enable bit,
\* BLOCK_PE_HANDLE, BRICKID = index - 2 and the four ERAT hashes of
\* tl_config() stay through every sequence of calls, and the registers of the
\* other bricks are not changed
C37_OnlyPeMask ==
    /\ [][PeMaskFromArgument]_vars
    /\ [](\A i \in Bricks :
             /\ Config0Rest(otl_config0[i]) = TlConfig0(i)
             /\ otl_config0[i].BRICKID = i - 2 /\ otl_config0[i].EN = 1
             /\ otl_config0[i].PE_MASK \in 0 .. 15)

\* two bricks have had their PE_MASK set, to different values, and the SPA
\* of one of them has been taken down again
C37_Witness ==
    /\ \E i, j \in Bricks :
           /\ i # j /\ otl_config0[i].PE_MASK # 0 /\ otl_config0[j].PE_MASK # 0
           /\ otl_config0[i].PE_MASK # otl_config0[j].PE_MASK
           /\ spap[SpapReg(i)].page = 0 /\ spap[SpapReg(j)].page # 0
    /\ Len(spa_trail) >= 3

\* the writes of a history of accesses
CommandWrites(h) == SelectSeq(h, LAMBDA a : a.kind = "write")

\* bit 16 of the LLCMD register that the call of c uses is set
CommandInFlight(c) == llcmd[LlcmdReg(oarg[c].index)] \cap PPC_BIT(16) # {}

\* the step is the write of the command of the call of c
WritesCommand(c) == opc[c] = "cc_write" /\ opc'[c] = "cc_poll"

\* a command is written when no command is in flight, and not between the
\* busy check and the write of another call
WriteWhenIdle ==
    \A c \in CPUS : WritesCommand(c) =>
        /\ ~CommandInFlight(c)
        /\ \A d \in CPUS \ {c} : opc[d] # "cc_write"

\* C38: with two CPUs in SPA_CLEAR_CACHE on the two bricks of a stack, which
\* share XSL_PSL_LLCMD_A0, no command is written while bit 16 is set: between
\* the busy check of a call and its write the other call writes nothing
C38_NoWriteWhileBusy ==
    /\ [][WriteWhenIdle]_vars
    /\ [](\A c \in CPUS : opc[c] = "cc_write" => ~CommandInFlight(c))

\* the two CPUs have called for the bricks 2 and 3: the command of the CPU 0
\* is over and the CPU 1 has written its own, which is in flight
C38_Witness ==
    /\ oarg[0].api = "clear_cache" /\ oarg[0].index = 2
    /\ oarg[1].api = "clear_cache" /\ oarg[1].index = 3
    /\ opc[0] = "idle" /\ orc[0] = "OPAL_SUCCESS" /\ Len(CommandWrites(acc[0])) = 1
    /\ opc[1] = "cc_poll" /\ Len(CommandWrites(acc[1])) = 1 /\ CommandInFlight(1)

\* npu2_opencapi_setup_device() has returned for the brick
SetupReturned == bpc \in {"final_fixup", "done"}

\* the training sequence has been invoked for the brick
TrainingInvoked == attempts > 0 \/ odl_log # <<>> \/ odl_steps # <<>>

\* C39: when the setup of a brick returns, in every training mode, either
\* its PHB is registered or its node has status = "error", never both and
\* never neither; a brick whose I2C port is not found or whose training
\* failed in every attempt is not registered, and in the modes prbs31 and
\* none the training is never invoked and transmission never enabled
C39_RegisteredOrError ==
    /\ training_state \in TrainingStates
    /\ ~(phb_registered /\ dt_status = "error")
    /\ SetupReturned => (phb_registered \/ dt_status = "error")
    /\ (SetupReturned /\ ~bars_set) => (~phb_registered /\ dt_status = "error")
    /\ (SetupReturned /\ TrainFailed(train_rc, train_retries)) =>
           (~phb_registered /\ dt_status = "error")
    /\ training_state # "NPU2_TRAIN_DEFAULT" =>
           (~TrainingInvoked /\ ~tx_enabled /\ slot = "none")
    /\ (SetupReturned /\ training_state # "NPU2_TRAIN_DEFAULT" /\ bars_set) =>
           phb_registered

\* in the mode prbs31 the brick is registered with no training and no
\* transmission
C39_Witness ==
    /\ training_state = "NPU2_TRAIN_PRBS31" /\ bpc = "done" /\ bars_set
    /\ phb_registered /\ dt_status = "none" /\ attempts = 0 /\ ~tx_enabled

\* the cell of the lock l is free
LockFree(l) == lock_val[l] = LOCK_UNLOCKED

\* c is in the loop of lock(l), after the fast try_lock has failed
InSpinLoop(c, l) ==
    /\ op[c].api = "lock" /\ op[c].l = l
    /\ pc[c] \in {"spin_try", "spin_wait"}

\* c has taken l in the loop of lock(l): the fast try_lock names lock.c as
\* the owner, the one of the loop names the caller
SpinAcquired(c, l) ==
    /\ op[c].api = "lock" /\ op[c].l = l
    /\ pc[c] \in {"lock_remove", "done"}
    /\ Owns(c, l) /\ owner[l] = "caller"

\* c is past the fast try_lock of its lock(), which has failed
PastFastTry(c) ==
    /\ op[c].api = "lock"
    /\ \/ pc[c] \in {"alr_try", "alr_spin", "walk_cell", "walk_owner", "walk_req",
                      "alr_unlock", "spin_try", "spin_wait", "lock_remove"}
       \/ pc[c] \in {"unlock_check2", "unlock_release"} /\ ctx[c] = "dl"
       \/ requested_lock[c] # NULL

\* the fast try_lock of a lock() that finds the lock free takes it, and the
\* call returns with no request registered
FastTryTakes ==
    \A c \in CPUS :
        (pc[c] = "lock_fast" /\ op[c].api = "lock" /\ LockFree(op[c].l)
             /\ pc'[c] # pc[c] /\ ~bust_locks) =>
            /\ pc'[c] = "done" /\ ret'[c] = "void"
            /\ lock_val'[op[c].l] = HeldVal(c)
            /\ requested_lock'[c] = NULL /\ requested_lock[c] = NULL

\* C40 as stated: with bust_locks off, callers that unlock what they take
\* and no cycle, when a CPU spins in lock(l) a spinning CPU comes to take l;
\* l is not free forever while a CPU spins for it; and a lock() whose lock
\* is free when it is called returns with no request registered
C40_SpinnerAcquires ==
    /\ \A l \in Locks :
           (\E c \in CPUS : InSpinLoop(c, l)) ~>
               (bust_locks \/ \E c \in CPUS : SpinAcquired(c, l))
    /\ \A l \in Locks : []<>~(LockFree(l) /\ \E c \in CPUS : InSpinLoop(c, l))
    /\ [](\A c \in CPUS : op[c].free => ~PastFastTry(c))

\* C40: with bust_locks off, callers that unlock what they take and no
\* cycle, when a CPU spins in lock(l) the lock is released if it is held and
\* taken by some CPU, spinning or not, once it is free, so that l is not free
\* forever while a CPU spins for it; and a lock() whose fast try_lock finds
\* the lock free returns with no request registered
C40_SomeCpuAcquires ==
    /\ \A l \in Locks :
           ((\E c \in CPUS : InSpinLoop(c, l)) /\ ~LockFree(l)) ~> (LockFree(l) \/ bust_locks)
    /\ \A l \in Locks :
           ((\E c \in CPUS : InSpinLoop(c, l)) /\ LockFree(l)) ~> (~LockFree(l) \/ bust_locks)
    /\ \A l \in Locks : []<>~(LockFree(l) /\ \E c \in CPUS : InSpinLoop(c, l))
    /\ [][FastTryTakes]_vars

\* the CPU 0 has taken the lock 1 in the loop of lock(), after the CPU 1
\* that held it has unlocked it and taken the lock 2
C40_Witness ==
    /\ SpinAcquired(0, 1) /\ pc[0] = "done" /\ ~bust_locks
    /\ Owns(1, 2) /\ op[1].api = "try_lock"


====
